---- MODULE Spec2Model ----
(***************************************************************************)
(* Model of skills/code-review/scripts/analyze-complexity.ts: the          *)
(* function-level complexity analyzer (ComplexityAnalyzer), its            *)
(* classification (getComplexityRating) and its report (printSummary).     *)
(***************************************************************************)
EXTENDS Integers, Sequences, FiniteSets, TLC

VARIABLES
    pc,              \* position of main(): "start", "parsed", "file", "walk", "visit",
                     \* "analyzed", "done", or "exit1" after process.exit(1)
    disk,            \* the file system at the target path
    sourceFile,      \* the tree ts.createSourceFile returns for the file under
                     \* analysis
    stack,           \* call stack of visitNode: frames [node, next]
    this_functions,  \* ComplexityAnalyzer.functions of the analyzer in use
    functions,       \* main's `functions` / printSummary's parameter
    threshold,       \* main's `threshold`, a number
    report,          \* what printSummary computed (its locals), NoReport before
    args,            \* process.argv.slice(2): a sequence of strings
    walkStack,       \* call stack of analyzeDirectory's walk: frames [dir, next]
    allFunctions,    \* analyzeDirectory's `allFunctions`
    console,         \* what console.log and console.error were given, but for
                     \* the report
    returned         \* the lists analyzer.analyze has returned so far, with the
                     \* path of each call

vars == <<pc, disk, sourceFile, stack, this_functions, functions, threshold, report,
          args, walkStack, allFunctions, console, returned>>

-----------------------------------------------------------------------------
(* Bounds of the model                                                     *)

\* nodes (the SourceFile included) of a tree one of whose nodes may be of any kind
MaxNodes == 4
\* nodes of a tree of nested functions and conditions
MaxNestNodes == 5
\* nodes of a tree of switch statements
MaxSwitchNodes == 7
\* nodes of a tree of try statements
MaxTryNodes == 6
\* nodes of a tree of expressions
MaxExprNodes == 4
\* nodes of a tree whose text is laid out over several lines
MaxLayoutNodes == 3
\* nodes of a tree of functions under the nodes that name them
MaxNameNodes == 3
\* nodes of a tree of parameters
MaxParamNodes == 6
\* calls of analyzeFile for one file
MaxCalls == 2
\* entries of a disk, the target included
MaxEntries == 4
\* records of a list handed to printSummary
MaxFunctions == 3
\* records of a list longer than the listing of printSummary
MaxLongFunctions == 12
\* the largest cyclomaticComplexity of a record handed to printSummary
MaxComplexity == 52

-----------------------------------------------------------------------------
(* Syntax trees: what ts.createSourceFile hands to the analyzer.           *)
(* A tree has nodes 1..n, numbered in document order (a node's number is   *)
(* the rank of its start offset); node 1 is the SourceFile.                *)

FunctionLikeKinds ==
    {"FunctionDeclaration", "MethodDeclaration", "ArrowFunction", "FunctionExpression"}

OperatorTokens == {"&&", "||", "??", "+"}

\* the kinds the analyzer tests for, and kinds it tests for nowhere
SyntaxKinds ==
    FunctionLikeKinds \cup
    {"IfStatement", "ConditionalExpression", "WhileStatement", "DoStatement",
     "ForStatement", "ForInStatement", "ForOfStatement", "CaseClause",
     "CatchClause", "BinaryExpression", "TryStatement", "SwitchStatement",
     "CaseBlock", "DefaultClause", "Block", "Parameter", "VariableDeclaration",
     "PropertyAssignment"}

Max(a, b) == IF a >= b THEN a ELSE b

\* a node that carries no name (an arrow function, an `export default function () {}`)
NoName == "<none>"

\* what a node is: its kind, its operator token (a BinaryExpression's; "none"
\* elsewhere) and the text of its name (NoName where the node has none)
Label(k, o, nm) == [kind |-> k, op |-> o, name |-> nm]

NamedKinds ==
    {"FunctionDeclaration", "MethodDeclaration", "FunctionExpression",
     "VariableDeclaration", "PropertyAssignment", "Parameter"}

LabelsOf(kinds) ==
    {Label(k, "none", IF k \in NamedKinds THEN "f" ELSE NoName) :
        k \in kinds \ {"BinaryExpression", "SourceFile"}}
    \cup (IF "BinaryExpression" \in kinds
          THEN {Label("BinaryExpression", o, NoName) : o \in OperatorTokens}
          ELSE {})

\* the parser's grammar, as far as the kinds above go: which kind may be the
\* child of which
Allowed(parentKind, childKind) ==
    /\ childKind \in {"CaseClause", "DefaultClause"} <=> parentKind = "CaseBlock"
    /\ childKind = "CaseBlock" <=> parentKind = "SwitchStatement"
    /\ childKind = "CatchClause" => parentKind = "TryStatement"
    /\ parentKind = "TryStatement" => childKind \in {"Block", "CatchClause"}
    /\ parentKind = "CatchClause" => childKind \in {"Block", "VariableDeclaration"}
    /\ childKind = "Parameter" => parentKind \in FunctionLikeKinds
    /\ childKind \in {"FunctionDeclaration", "MethodDeclaration"}
          => parentKind \notin {"VariableDeclaration", "PropertyAssignment"}
    /\ childKind = "BindingElement" <=> parentKind = "ObjectBindingPattern"
    /\ childKind = "ObjectBindingPattern" => parentKind \in {"Parameter", "BindingElement"}

\* the path of the file under analysis, a string (a sequence of characters)
TargetPath == <<"a", ".", "t", "s">>

\* the tree of an empty file, all on line 0; tooDeep tells that the tree is
\* deeper than the call stack lets a traversal go (a RangeError on the way)
EmptyFile ==
    [n |-> 1, parent |-> <<0>>, kind |-> <<"SourceFile">>, op |-> <<"none">>,
     name |-> <<NoName>>, nlOpen |-> {}, nlClose |-> {}, fileName |-> TargetPath,
     tooDeep |-> FALSE]

RECURSIVE Ancestors(_, _)
\* the proper ancestors of node i
Ancestors(t, i) ==
    IF t.parent[i] = 0 THEN {} ELSE {t.parent[i]} \cup Ancestors(t, t.parent[i])

\* the tree t with one more node, the last in document order, under p
Extend(t, p, lab) ==
    [t EXCEPT !.n = t.n + 1,
              !.parent = Append(t.parent, p),
              !.kind = Append(t.kind, lab.kind),
              !.op = Append(t.op, lab.op),
              !.name = Append(t.name, lab.name)]

RECURSIVE TreesOfSize(_, _, _, _)
\* every tree of n nodes that adds nodes to the tree `base`, the added nodes
\* carrying labels of `core`, but for at most one, which may carry a label of
\* `once`: node k+1 hangs under node k or under one of node k's ancestors
TreesOfSize(base, core, once, n) ==
    IF n <= base.n THEN {base}
    ELSE {Extend(c[1], c[2], c[3]) :
            c \in {x \in TreesOfSize(base, core, once, n - 1) \X (1..(n - 1))
                           \X (core \cup once) :
                     /\ x[2] \in {x[1].n} \cup Ancestors(x[1], x[1].n)
                     /\ Allowed(x[1].kind[x[2]], x[3].kind)
                     /\ x[3] \in core
                        \/ \A i \in (base.n + 1)..x[1].n :
                              Label(x[1].kind[i], x[1].op[i], x[1].name[i]) \in core}}

\* every such tree of at most n nodes
TreesOver(base, core, once, n) ==
    UNION {TreesOfSize(base, core, once, k) : k \in base.n..n}

\* the tree of a file that holds one function declaration, all on line 0
OneFunctionFile == Extend(EmptyFile, 1, Label("FunctionDeclaration", "none", "f"))

\* the nodes of the subtree of i other than i; they come behind i in
\* document order
Descendants(t, i) == {j \in (i + 1)..t.n : i \in Ancestors(t, j)}

\* the last node, in document order, of the subtree of i
LastOf(t, i) ==
    CHOOSE j \in {i} \cup Descendants(t, i) :
        \A k \in Descendants(t, i) : k <= j

\* sourceFile.getLineAndCharacterOfPosition(node.getStart()).line, 0-based: the
\* line breaks of the text before the first token of node i. nlOpen holds the
\* nodes whose first token starts a line, nlClose those whose last token does.
StartLine(t, i) ==
    Cardinality({j \in t.nlOpen : j <= i})
    + Cardinality({j \in t.nlClose : j < i /\ j \notin Ancestors(t, i)})

\* sourceFile.getLineAndCharacterOfPosition(node.getEnd()).line, 0-based
EndLine(t, i) ==
    Cardinality({j \in t.nlOpen : j <= LastOf(t, i)})
    + Cardinality({j \in t.nlClose : j <= LastOf(t, i) /\ j \notin Ancestors(t, i)})

-----------------------------------------------------------------------------
(* ComplexityAnalyzer: the metric calculators                              *)

isFunctionLike(kind) ==
    \/ kind = "FunctionDeclaration"
    \/ kind = "MethodDeclaration"
    \/ kind = "ArrowFunction"
    \/ kind = "FunctionExpression"

\* isBranch counting the default clause as it counts the case clauses
isBranch_withDefault(kind) ==
    \/ kind = "IfStatement"
    \/ kind = "ConditionalExpression"
    \/ kind = "WhileStatement"
    \/ kind = "DoStatement"
    \/ kind = "ForStatement"
    \/ kind = "ForInStatement"
    \/ kind = "ForOfStatement"
    \/ kind = "CaseClause"
    \/ kind = "DefaultClause"
    \/ kind = "CatchClause"

\* isBranch with the for-of test left out
isBranch_withoutForOf(kind) ==
    \/ kind = "IfStatement"
    \/ kind = "ConditionalExpression"
    \/ kind = "WhileStatement"
    \/ kind = "DoStatement"
    \/ kind = "ForStatement"
    \/ kind = "ForInStatement"
    \/ kind = "CaseClause"
    \/ kind = "CatchClause"

\* isBranch counting the switch statement as well as its case clauses
isBranch_withSwitch(kind) ==
    \/ kind = "IfStatement"
    \/ kind = "ConditionalExpression"
    \/ kind = "WhileStatement"
    \/ kind = "DoStatement"
    \/ kind = "ForStatement"
    \/ kind = "ForInStatement"
    \/ kind = "ForOfStatement"
    \/ kind = "SwitchStatement"
    \/ kind = "CaseClause"
    \/ kind = "CatchClause"

\* the first test of calculateComplexity's visit
isBranch(kind) ==
    \/ kind = "IfStatement"
    \/ kind = "ConditionalExpression"
    \/ kind = "WhileStatement"
    \/ kind = "DoStatement"
    \/ kind = "ForStatement"
    \/ kind = "ForInStatement"
    \/ kind = "ForOfStatement"
    \/ kind = "CaseClause"
    \/ kind = "CatchClause"

\* the second test with the || left out
isLogicalOperator_andOnly(kind, op) ==
    /\ kind = "BinaryExpression"
    /\ op = "&&"

\* the second test of calculateComplexity's visit
isLogicalOperator(kind, op) ==
    /\ kind = "BinaryExpression"
    /\ (op = "&&" \/ op = "||")

\* isNesting with a test for the catch clause added
isNesting_withCatch(kind) ==
    \/ kind = "IfStatement"
    \/ kind = "WhileStatement"
    \/ kind = "DoStatement"
    \/ kind = "ForStatement"
    \/ kind = "ForInStatement"
    \/ kind = "ForOfStatement"
    \/ kind = "TryStatement"
    \/ kind = "CatchClause"
    \/ kind = "SwitchStatement"

\* isNesting with the try test left out
isNesting_withoutTry(kind) ==
    \/ kind = "IfStatement"
    \/ kind = "WhileStatement"
    \/ kind = "DoStatement"
    \/ kind = "ForStatement"
    \/ kind = "ForInStatement"
    \/ kind = "ForOfStatement"
    \/ kind = "SwitchStatement"

\* the test of calculateMaxNesting's visit
isNesting(kind) ==
    \/ kind = "IfStatement"
    \/ kind = "WhileStatement"
    \/ kind = "DoStatement"
    \/ kind = "ForStatement"
    \/ kind = "ForInStatement"
    \/ kind = "ForOfStatement"
    \/ kind = "TryStatement"
    \/ kind = "SwitchStatement"

RECURSIVE calculateComplexity_visit(_, _, _), calculateComplexity_forEachChild(_, _, _, _)
\* a visit that stops at the functions nested in the one it counts for
calculateComplexity_visit_isolated(t, n, complexity) ==
    IF isFunctionLike(t.kind[n]) THEN complexity
    ELSE LET c1 == IF isBranch(t.kind[n]) THEN complexity + 1 ELSE complexity
             c2 == IF isLogicalOperator(t.kind[n], t.op[n]) THEN c1 + 1 ELSE c1
         IN  calculateComplexity_forEachChild(t, n, n + 1, c2)

\* visit(n) of calculateComplexity, `complexity` threaded through: its value
\* after the call
calculateComplexity_visit(t, n, complexity) ==
    LET c1 == IF isBranch(t.kind[n]) THEN complexity + 1 ELSE complexity
        c2 == IF isLogicalOperator(t.kind[n], t.op[n]) THEN c1 + 1 ELSE c1
    IN  calculateComplexity_forEachChild(t, n, n + 1, c2)

\* ts.forEachChild(n, visit), from the candidate j on: the children of n are
\* visited in document order
calculateComplexity_forEachChild(t, n, j, complexity) ==
    IF j > t.n THEN complexity
    ELSE calculateComplexity_forEachChild(t, n, j + 1,
            IF t.parent[j] = n THEN calculateComplexity_visit(t, j, complexity)
            ELSE complexity)

calculateComplexity(t, node) ==
    calculateComplexity_forEachChild(t, node, node + 1, 1)

\* countLines without the + 1
countLines_exclusive(t, node) == EndLine(t, node) - StartLine(t, node)

countLines(t, node) == EndLine(t, node) - StartLine(t, node) + 1

RECURSIVE calculateMaxNesting_visit(_, _, _, _), calculateMaxNesting_forEachChild(_, _, _, _, _)
\* a visit that starts again from depth 0 in a nested function
calculateMaxNesting_visit_reset(t, n, currentDepth, maxDepth) ==
    LET nests == isNesting(t.kind[n])
        base == IF isFunctionLike(t.kind[n]) THEN 0 ELSE currentDepth
        newDepth == IF nests THEN base + 1 ELSE base
        m == IF nests THEN Max(maxDepth, newDepth) ELSE maxDepth
    IN  calculateMaxNesting_forEachChild(t, n, n + 1, newDepth, m)

\* a visit that takes an if that is the child of an if, an else-if, for a
\* branch of that if, at its depth
calculateMaxNesting_visit_flatElseIf(t, n, currentDepth, maxDepth) ==
    LET elseIf == t.kind[n] = "IfStatement" /\ t.kind[t.parent[n]] = "IfStatement"
        nests == isNesting(t.kind[n]) /\ ~elseIf
        newDepth == IF nests THEN currentDepth + 1 ELSE currentDepth
        m == IF nests THEN Max(maxDepth, newDepth) ELSE maxDepth
    IN  calculateMaxNesting_forEachChild(t, n, n + 1, newDepth, m)

\* visit(n, currentDepth) of calculateMaxNesting, `maxDepth` threaded through
calculateMaxNesting_visit(t, n, currentDepth, maxDepth) ==
    LET nests == isNesting(t.kind[n])
        newDepth == IF nests THEN currentDepth + 1 ELSE currentDepth
        m == IF nests THEN Max(maxDepth, newDepth) ELSE maxDepth
    IN  calculateMaxNesting_forEachChild(t, n, n + 1, newDepth, m)

calculateMaxNesting_forEachChild(t, n, j, depth, maxDepth) ==
    IF j > t.n THEN maxDepth
    ELSE calculateMaxNesting_forEachChild(t, n, j + 1, depth,
            IF t.parent[j] = n THEN calculateMaxNesting_visit(t, j, depth, maxDepth)
            ELSE maxDepth)

calculateMaxNesting(t, node, depth) ==
    calculateMaxNesting_forEachChild(t, node, node + 1, depth, depth)

\* a count of every parameter under the node, those of the functions in it
\* included
countParameters_deep(t, node) ==
    Cardinality({j \in 1..t.n : node \in Ancestors(t, j) /\ t.kind[j] = "Parameter"})

\* node.parameters.length: the Parameter children of the node
countParameters(t, node) ==
    Cardinality({j \in 1..t.n : t.parent[j] = node /\ t.kind[j] = "Parameter"})

\* getFunctionName without the || '(anonymous)' of its first return
getFunctionName_noFallback(t, node) ==
    IF t.kind[node] \in {"FunctionDeclaration", "MethodDeclaration"}
    THEN IF t.name[node] = NoName THEN "" ELSE t.name[node]
    ELSE LET parent == t.parent[node]
         IN  IF t.kind[parent] = "VariableDeclaration" /\ t.name[parent] # NoName
             THEN t.name[parent]
             ELSE IF t.kind[parent] = "PropertyAssignment" /\ t.name[parent] # NoName
             THEN t.name[parent]
             ELSE "(anonymous)"

\* node.name?.getText() is undefined for a node without a name and '' for a
\* name the parser had to make up; both are falsy
getFunctionName(t, node) ==
    IF t.kind[node] \in {"FunctionDeclaration", "MethodDeclaration"}
    THEN IF t.name[node] \in {NoName, ""} THEN "(anonymous)" ELSE t.name[node]
    ELSE LET parent == t.parent[node]
         IN  IF t.kind[parent] = "VariableDeclaration" /\ t.name[parent] # NoName
             THEN t.name[parent]
             ELSE IF t.kind[parent] = "PropertyAssignment" /\ t.name[parent] # NoName
             THEN t.name[parent]
             ELSE "(anonymous)"

\* analyzeFunctionNode with the line of the start as the parser counts it,
\* from 0
analyzeFunctionNode_zeroBasedLine(t, node) ==
    [name |-> getFunctionName(t, node),
     filePath |-> t.fileName,
     lineNumber |-> StartLine(t, node),
     cyclomaticComplexity |-> calculateComplexity(t, node),
     linesOfCode |-> countLines(t, node),
     maxNestingDepth |-> calculateMaxNesting(t, node, 0),
     parameterCount |-> countParameters(t, node),
     node |-> node]

\* the record analyzeFunctionNode pushes; `node` is not a field of the
\* program's record: it remembers which node the record was made from
analyzeFunctionNode(t, node) ==
    [name |-> getFunctionName(t, node),
     filePath |-> t.fileName,
     lineNumber |-> StartLine(t, node) + 1,
     cyclomaticComplexity |-> calculateComplexity(t, node),
     linesOfCode |-> countLines(t, node),
     maxNestingDepth |-> calculateMaxNesting(t, node, 0),
     parameterCount |-> countParameters(t, node),
     node |-> node]

-----------------------------------------------------------------------------
(* Classification and the report                                           *)

\* the ratings are named in English here: '단순' simple, '보통' moderate,
\* '복잡' complex, '매우 복잡' very complex
getComplexityRating(complexity) ==
    IF complexity <= 10 THEN "simple"
    ELSE IF complexity <= 20 THEN "moderate"
    ELSE IF complexity <= 50 THEN "complex"
    ELSE "very complex"

\* the comparator of an ascending sort
compareFn_ascending(a, b) == a.cyclomaticComplexity - b.cyclomaticComplexity

\* the comparator printSummary hands to Array.prototype.sort
compareFn(a, b) == b.cyclomaticComplexity - a.cyclomaticComplexity

RECURSIVE sortInsert(_, _, _)
\* a sortInsert that puts x in the place of the element it is to go before
sortInsert_overwriting(s, x, i) ==
    IF i > Len(s) THEN Append(s, x)
    ELSE IF compareFn(s[i], x) <= 0 THEN sortInsert(s, x, i + 1)
    ELSE SubSeq(s, 1, i - 1) \o <<x>> \o SubSeq(s, i + 1, Len(s))

\* x put into the sorted sequence s, from position i on: behind every element
\* that does not have to come after it
sortInsert(s, x, i) ==
    IF i > Len(s) THEN Append(s, x)
    ELSE IF compareFn(s[i], x) <= 0 THEN sortInsert(s, x, i + 1)
    ELSE SubSeq(s, 1, i - 1) \o <<x>> \o SubSeq(s, i, Len(s))

RECURSIVE sortFrom(_, _, _)
sortFrom(done, s, i) ==
    IF i > Len(s) THEN done ELSE sortFrom(sortInsert(done, s[i], 1), s, i + 1)

\* Array.prototype.sort with compareFn: the engine's sort is stable, and a
\* stable sort has one result
sort(s) == sortFrom(<<>>, s, 1)

\* `threshold` of main is a JavaScript number: an integer or NaN
NaN == [nan |-> TRUE, val |-> 0]
Num(v) == [nan |-> FALSE, val |-> v]

\* the test with > for >=
atOrAbove_strict(f, t) == ~t.nan /\ f.cyclomaticComplexity > t.val

\* f.cyclomaticComplexity >= threshold (false against NaN)
atOrAbove(f, t) == ~t.nan /\ f.cyclomaticComplexity >= t.val

filter(s, t) == SelectSeq(s, LAMBDA f : atOrAbove(f, t))

RECURSIVE sumOf(_, _)
\* functions.reduce((sum, f) => sum + f[field], 0), from element i on
sumOf(s, field) ==
    IF s = <<>> THEN 0 ELSE Head(s)[field] + sumOf(Tail(s), field)

RECURSIVE maxOf(_)
\* Math.max(...functions.map((f) => f.cyclomaticComplexity)) of a non-empty list
maxOf(s) ==
    IF Len(s) = 1 THEN s[1].cyclomaticComplexity
    ELSE Max(s[1].cyclomaticComplexity, maxOf(Tail(s)))

count(s, Test(_)) == Len(SelectSeq(s, Test))

isSimple(c) == c <= 10
isModerate(c) == c >= 11 /\ c <= 20
\* the band of the complex with its upper edge left out
isComplex_below50(c) == c >= 21 /\ c < 50

isComplex(c) == c >= 21 /\ c <= 50
isVeryComplex(c) == c > 50

NoReport == [outcome |-> "none"]

\* a printSummary without its first test: the empty list is sorted and
\* filtered like any other
summaryOf_noEmptyCheck(fs, t) ==
    LET sorted == sort(fs)
        complex == filter(sorted, t)
    IN  IF Len(complex) = 0
        THEN [outcome |-> "allBelow", sorted |-> sorted, complex |-> complex]
        ELSE [outcome |-> "full", sorted |-> sorted, complex |-> complex,
              listed |-> SubSeq(complex, 1, IF Len(complex) < 10 THEN Len(complex) ELSE 10),
              total |-> Len(sorted),
              sumComplexity |-> sumOf(sorted, "cyclomaticComplexity"),
              sumLines |-> sumOf(sorted, "linesOfCode"),
              maxComplexity |-> maxOf(sorted),
              simple |-> count(sorted, LAMBDA f : isSimple(f.cyclomaticComplexity)),
              moderate |-> count(sorted, LAMBDA f : isModerate(f.cyclomaticComplexity)),
              complexCount |-> count(sorted, LAMBDA f : isComplex(f.cyclomaticComplexity)),
              veryComplex |-> count(sorted, LAMBDA f : isVeryComplex(f.cyclomaticComplexity))]

\* a printSummary without its second test: the statistics and the bands
\* are computed whether a function is at or above the threshold or none is
summaryOf_noBelowCheck(fs, t) ==
    IF Len(fs) = 0 THEN [outcome |-> "empty"]
    ELSE LET sorted == sort(fs)
             complex == filter(sorted, t)
         IN  [outcome |-> "full", sorted |-> sorted, complex |-> complex,
              listed |-> SubSeq(complex, 1, IF Len(complex) < 10 THEN Len(complex) ELSE 10),
              total |-> Len(sorted),
              sumComplexity |-> sumOf(sorted, "cyclomaticComplexity"),
              sumLines |-> sumOf(sorted, "linesOfCode"),
              maxComplexity |-> maxOf(sorted),
              simple |-> count(sorted, LAMBDA f : isSimple(f.cyclomaticComplexity)),
              moderate |-> count(sorted, LAMBDA f : isModerate(f.cyclomaticComplexity)),
              complexCount |-> count(sorted, LAMBDA f : isComplex(f.cyclomaticComplexity)),
              veryComplex |-> count(sorted, LAMBDA f : isVeryComplex(f.cyclomaticComplexity))]

\* a printSummary that lists every function at or above the threshold
summaryOf_listsAll(fs, t) ==
    IF Len(fs) = 0 THEN [outcome |-> "empty"]
    ELSE LET sorted == sort(fs)
             complex == filter(sorted, t)
         IN  IF Len(complex) = 0
             THEN [outcome |-> "allBelow", sorted |-> sorted, complex |-> complex]
             ELSE [outcome |-> "full", sorted |-> sorted, complex |-> complex,
                   listed |-> complex,
                   total |-> Len(sorted),
                   sumComplexity |-> sumOf(sorted, "cyclomaticComplexity"),
                   sumLines |-> sumOf(sorted, "linesOfCode"),
                   maxComplexity |-> maxOf(sorted),
                   simple |-> count(sorted, LAMBDA f : isSimple(f.cyclomaticComplexity)),
                   moderate |-> count(sorted, LAMBDA f : isModerate(f.cyclomaticComplexity)),
                   complexCount |-> count(sorted, LAMBDA f : isComplex(f.cyclomaticComplexity)),
                   veryComplex |-> count(sorted, LAMBDA f : isVeryComplex(f.cyclomaticComplexity))]

\* a printSummary whose statistics are those of the functions it lists
summaryOf_overComplex(fs, t) ==
    IF Len(fs) = 0 THEN [outcome |-> "empty"]
    ELSE LET sorted == sort(fs)
             complex == filter(sorted, t)
         IN  IF Len(complex) = 0
             THEN [outcome |-> "allBelow", sorted |-> sorted, complex |-> complex]
             ELSE [outcome |-> "full", sorted |-> sorted, complex |-> complex,
                   listed |-> SubSeq(complex, 1, IF Len(complex) < 10 THEN Len(complex) ELSE 10),
                   total |-> Len(complex),
                   sumComplexity |-> sumOf(complex, "cyclomaticComplexity"),
                   sumLines |-> sumOf(complex, "linesOfCode"),
                   maxComplexity |-> maxOf(complex),
                   simple |-> count(complex, LAMBDA f : isSimple(f.cyclomaticComplexity)),
                   moderate |-> count(complex, LAMBDA f : isModerate(f.cyclomaticComplexity)),
                   complexCount |-> count(complex, LAMBDA f : isComplex(f.cyclomaticComplexity)),
                   veryComplex |-> count(complex, LAMBDA f : isVeryComplex(f.cyclomaticComplexity))]

\* what printSummary(functions, threshold) computes and prints; the averages
\* it prints are sumComplexity / total and sumLines / total
summaryOf(fs, t) ==
    IF Len(fs) = 0 THEN [outcome |-> "empty"]
    ELSE LET sorted == sort(fs)
             complex == filter(sorted, t)
         IN  IF Len(complex) = 0
             THEN [outcome |-> "allBelow", sorted |-> sorted, complex |-> complex]
             ELSE [outcome |-> "full", sorted |-> sorted, complex |-> complex,
                   listed |-> SubSeq(complex, 1, IF Len(complex) < 10 THEN Len(complex) ELSE 10),
                   total |-> Len(sorted),
                   sumComplexity |-> sumOf(sorted, "cyclomaticComplexity"),
                   sumLines |-> sumOf(sorted, "linesOfCode"),
                   maxComplexity |-> maxOf(sorted),
                   simple |-> count(sorted, LAMBDA f : isSimple(f.cyclomaticComplexity)),
                   moderate |-> count(sorted, LAMBDA f : isModerate(f.cyclomaticComplexity)),
                   complexCount |-> count(sorted, LAMBDA f : isComplex(f.cyclomaticComplexity)),
                   veryComplex |-> count(sorted, LAMBDA f : isVeryComplex(f.cyclomaticComplexity))]

-----------------------------------------------------------------------------
(* main: the command line                                                  *)
(* A string is a sequence of one-character strings.                        *)

Digits == <<"0", "1", "2", "3", "4", "5", "6", "7", "8", "9">>

isDigit(c) == \E d \in 1..10 : Digits[d] = c

digitValue(c) == (CHOOSE d \in 1..10 : Digits[d] = c) - 1

isWhiteSpace(c) == c = " "

RECURSIVE skipWhiteSpace(_)
skipWhiteSpace(str) ==
    IF str # <<>> /\ isWhiteSpace(Head(str)) THEN skipWhiteSpace(Tail(str)) ELSE str

RECURSIVE parseDigits(_, _)
\* the value of the longest prefix of digits of str, read after the value acc
parseDigits(str, acc) ==
    IF str # <<>> /\ isDigit(Head(str))
    THEN parseDigits(Tail(str), 10 * acc + digitValue(Head(str)))
    ELSE acc

\* parseInt(str, 10): white space, a sign, then the digits up to the first
\* character that is none; NaN when there is no digit
parseInt(str) ==
    LET s1 == skipWhiteSpace(str)
        negative == s1 # <<>> /\ Head(s1) = "-"
        s2 == IF s1 # <<>> /\ Head(s1) \in {"-", "+"} THEN Tail(s1) ELSE s1
    IN  IF s2 = <<>> \/ ~isDigit(Head(s2)) THEN NaN
        ELSE Num(IF negative THEN 0 - parseDigits(s2, 0) ELSE parseDigits(s2, 0))

ThresholdFlag == <<"-", "-", "t", "h", "r", "e", "s", "h", "o", "l", "d">>

\* args.indexOf('--threshold'), 0-based; -1 when absent
indexOf(a, x) ==
    IF \E i \in 1..Len(a) : a[i] = x
    THEN (CHOOSE i \in 1..Len(a) : a[i] = x /\ \A j \in 1..(i - 1) : a[j] # x) - 1
    ELSE -1

\* args[i], 0-based: undefined past the end, and undefined and '' are falsy
truthyArg(a, i) == i + 1 <= Len(a) /\ a[i + 1] # <<>>

\* main, lines 355-365: the threshold the arguments select
thresholdOf(a) ==
    LET thresholdIndex == indexOf(a, ThresholdFlag)
    IN  IF thresholdIndex # -1 /\ truthyArg(a, thresholdIndex + 1)
        THEN parseInt(a[thresholdIndex + 2])
        ELSE Num(10)

-----------------------------------------------------------------------------
(* The file system at the target path                                      *)
(* A disk has entries 1..n, numbered as a depth-first walk that follows    *)
(* readdirSync comes to them; entry 1 is the target of the run. An entry   *)
(* is "missing", a "file", a "dir" or "other" (a socket, a device); only   *)
(* the target can be missing or other. Every entry of a directory is one   *)
(* statSync succeeds on.                                                   *)

\* what readFileSync and the parser make of a file: a tree, or an exception
Readable(t) == [readable |-> TRUE, tree |-> t]
Unreadable == [readable |-> FALSE, tree |-> EmptyFile]

EntryLabel(k, nm, c) == [kind |-> k, name |-> nm, content |-> c]

\* the disk whose target is one entry
TargetDisk(lab) ==
    [n |-> 1, parent |-> <<0>>, kind |-> <<lab.kind>>, name |-> <<lab.name>>,
     content |-> <<lab.content>>]

\* the disk d with one more entry, the last of the walk, in the directory p
ExtendDisk(d, p, lab) ==
    [d EXCEPT !.n = d.n + 1,
              !.parent = Append(d.parent, p),
              !.kind = Append(d.kind, lab.kind),
              !.name = Append(d.name, lab.name),
              !.content = Append(d.content, lab.content)]

\* path.join(dir, file)
join(dir, file) == IF dir = <<".">> THEN file ELSE dir \o <<"/">> \o file

RECURSIVE pathOf(_, _)
\* the path under which the run comes to entry e: the target path for the
\* target, path.join(dir, file) for an entry of a directory
pathOf(d, e) ==
    IF d.parent[e] = 0 THEN d.name[e] ELSE join(pathOf(d, d.parent[e]), d.name[e])

\* String.prototype.startsWith and endsWith
startsWith(str, prefix) ==
    Len(str) >= Len(prefix) /\ SubSeq(str, 1, Len(prefix)) = prefix

endsWith(str, suffix) ==
    Len(str) >= Len(suffix) /\ SubSeq(str, Len(str) - Len(suffix) + 1, Len(str)) = suffix

\* ['.ts', '.tsx', '.js', '.jsx']
extensions ==
    <<(<<".", "t", "s">>), (<<".", "t", "s", "x">>), (<<".", "j", "s">>),
      (<<".", "j", "s", "x">>)>>

\* extensions.some((ext) => file.endsWith(ext)), and as well what
\* targetPath.match(/\.(ts|tsx|js|jsx)$/) tells
hasExtension(file) == \E i \in 1..Len(extensions) : endsWith(file, extensions[i])

\* the test of walk with the dist left out
isSkippedDirectory_withoutDist(file) ==
    ~(~startsWith(file, <<".">>) /\ file # <<"n", "o", "d", "e", "_", "m", "o", "d", "u", "l", "e", "s">>)

\* the directories walk does not enter
isSkippedDirectory(file) ==
    ~(/\ ~startsWith(file, <<".">>)
      /\ file # <<"n", "o", "d", "e", "_", "m", "o", "d", "u", "l", "e", "s">>
      /\ file # <<"d", "i", "s", "t">>)

\* fs.existsSync(path), path being the target path
existsSync(d, path) == d.name[1] = path /\ d.kind[1] # "missing"

\* ts.createSourceFile(filePath, source, ...): the tree of the source, its
\* fileName the path it was given
createSourceFile(filePath, tree) == [tree EXCEPT !.fileName = filePath]

\* one line of the console
Say(stream, message, path) == [stream |-> stream, message |-> message, path |-> path]

-----------------------------------------------------------------------------
(* The program                                                             *)

\* main up to line 365: no argument prints the usage and exits; a threshold
\* that is not a number exits
main_parseArgs ==
    /\ pc = "start"
    /\ IF Len(args) = 0
       THEN /\ pc' = "exit1"
            /\ console' = Append(console, Say("log", "usage", <<>>))
            /\ UNCHANGED threshold
       ELSE /\ threshold' = thresholdOf(args)
            /\ pc' = IF thresholdOf(args).nan THEN "exit1" ELSE "parsed"
            /\ console' = IF thresholdOf(args).nan
                          THEN Append(console, Say("error", "threshold is no number", <<>>))
                          ELSE console
    /\ UNCHANGED <<disk, sourceFile, stack, this_functions, functions, report, args,
                   walkStack, allFunctions, returned>>

\* a main that takes a file of another extension for a file without functions
main_checkPath_lenient ==
    /\ pc = "parsed"
    /\ LET targetPath == args[1]
       IN  IF ~existsSync(disk, targetPath) \/ disk.kind[1] \notin {"file", "dir"}
           THEN /\ pc' = "analyzed"
                /\ UNCHANGED <<walkStack, allFunctions, console>>
           ELSE IF disk.kind[1] = "file"
           THEN /\ pc' = IF hasExtension(targetPath) THEN "file" ELSE "analyzed"
                /\ UNCHANGED <<walkStack, allFunctions, console>>
           ELSE /\ pc' = "walk"
                /\ walkStack' = <<[dir |-> 1, next |-> 2]>>
                /\ allFunctions' = <<>>
                /\ UNCHANGED console
    /\ UNCHANGED <<disk, sourceFile, stack, this_functions, functions, threshold,
                   report, args, returned>>

\* main, lines 367-389, up to the call of analyzeFile or of walk: a path that
\* does not exist, a file of another extension and a path that is neither a
\* file nor a directory exit
main_checkPath ==
    /\ pc = "parsed"
    /\ LET targetPath == args[1]
       IN  IF ~existsSync(disk, targetPath)
           THEN /\ console' = Append(console, Say("error", "path not found", targetPath))
                /\ pc' = "exit1"
                /\ UNCHANGED <<walkStack, allFunctions>>
           ELSE IF disk.kind[1] = "file"
           THEN IF hasExtension(targetPath)
                THEN /\ pc' = "file"
                     /\ UNCHANGED <<walkStack, allFunctions, console>>
                ELSE /\ console' = Append(console, Say("error", "unsupported file", <<>>))
                     /\ pc' = "exit1"
                     /\ UNCHANGED <<walkStack, allFunctions>>
           ELSE IF disk.kind[1] = "dir"
           THEN /\ pc' = "walk"
                /\ walkStack' = <<[dir |-> 1, next |-> 2]>>
                /\ allFunctions' = <<>>
                /\ UNCHANGED console
           ELSE /\ console' = Append(console, Say("error", "invalid path", targetPath))
                /\ pc' = "exit1"
                /\ UNCHANGED <<walkStack, allFunctions>>
    /\ UNCHANGED <<disk, sourceFile, stack, this_functions, functions, threshold,
                   report, args, returned>>

\* visitNode(node) up to its forEachChild: a function-like node is analyzed
visitNode_enter(fs, t, node) ==
    IF isFunctionLike(t.kind[node]) THEN Append(fs, analyzeFunctionNode(t, node)) ELSE fs

\* childrenFrom of a traversal that does not enter the functions it finds
childrenFrom_notIntoFunctions(t, node, j) ==
    IF isFunctionLike(t.kind[node]) THEN {}
    ELSE {c \in j..t.n : t.parent[c] = node}

\* the children of node from candidate j on
childrenFrom(t, node, j) == {c \in j..t.n : t.parent[c] = node}

\* `functions` of an analyzer that all the calls of analyzeFile share
newAnalyzer_shared == this_functions

\* `functions` of a new ComplexityAnalyzer()
newAnalyzer == <<>>

\* analyzeFile(filePath) for the entry e, up to the call of visitNode: a new
\* analyzer, whose analyze reads the file and parses it. A file that cannot
\* be read is reported and [] is returned to the caller, main or walk. `out`
\* is the console before the call.
analyzeFile_call(e, out, inWalk) ==
    LET filePath == pathOf(disk, e)
        source == disk.content[e]
    IN  IF source.readable
        THEN LET parsed == createSourceFile(filePath, source.tree)
             IN  /\ sourceFile' = parsed
                 /\ this_functions' = visitNode_enter(newAnalyzer, parsed, 1)
                 /\ stack' = <<[node |-> 1, next |-> 2]>>
                 /\ pc' = "visit"
                 /\ console' = out
                 /\ UNCHANGED <<functions, allFunctions, returned>>
        ELSE /\ console' = Append(out, Say("error", "analysis error", filePath))
             /\ returned' = Append(returned, [path |-> filePath, list |-> <<>>])
             /\ this_functions' = newAnalyzer
             /\ pc' = IF inWalk THEN "walk" ELSE "analyzed"
             /\ functions' = IF inWalk THEN functions ELSE <<>>
             /\ UNCHANGED <<sourceFile, stack, allFunctions>>

\* main, line 379: functions = analyzeFile(targetPath)
analyzeFile ==
    /\ pc = "file"
    /\ analyzeFile_call(1, console, FALSE)
    /\ UNCHANGED <<disk, threshold, report, args, walkStack>>

\* ts.forEachChild(node, (child) => this.visitNode(child)): the call for the
\* next child of the node on top
visitNode ==
    /\ pc = "visit"
    /\ stack # <<>>
    /\ LET top == stack[Len(stack)]
           cs == childrenFrom(sourceFile, top.node, top.next)
       IN  /\ cs # {}
           /\ LET child == CHOOSE c \in cs : \A d \in cs : c <= d
              IN  /\ this_functions' = visitNode_enter(this_functions, sourceFile, child)
                  /\ stack' = Append([stack EXCEPT ![Len(stack)].next = child + 1],
                                     [node |-> child, next |-> child + 1])
    /\ UNCHANGED <<pc, disk, sourceFile, functions, threshold, report, args,
                   walkStack, allFunctions, console, returned>>

\* visitNode returns when the node on top has no child left
visitNode_return ==
    /\ pc = "visit"
    /\ stack # <<>>
    /\ LET top == stack[Len(stack)]
       IN  childrenFrom(sourceFile, top.node, top.next) = {}
    /\ stack' = SubSeq(stack, 1, Len(stack) - 1)
    /\ UNCHANGED <<pc, disk, sourceFile, this_functions, functions, threshold, report,
                   args, walkStack, allFunctions, console, returned>>

\* analyze returns this.functions and analyzeFile returns it: main keeps it,
\* walk pushes its records onto allFunctions
analyze_return ==
    /\ pc = "visit"
    /\ stack = <<>>
    /\ ~sourceFile.tooDeep
    /\ returned' = Append(returned, [path |-> sourceFile.fileName, list |-> this_functions])
    /\ IF walkStack = <<>>
       THEN /\ functions' = this_functions
            /\ pc' = "analyzed"
            /\ UNCHANGED allFunctions
       ELSE /\ allFunctions' = allFunctions \o this_functions
            /\ pc' = "walk"
            /\ UNCHANGED functions
    /\ UNCHANGED <<disk, sourceFile, stack, this_functions, threshold, report, args,
                   walkStack, console>>

\* a catch that returns what the analyzer has recorded so far
analyze_catch_returnsFunctions ==
    /\ pc = "visit"
    /\ stack # <<>>
    /\ sourceFile.tooDeep
    /\ stack' = <<>>
    /\ console' = Append(console, Say("error", "analysis error", sourceFile.fileName))
    /\ returned' = Append(returned, [path |-> sourceFile.fileName, list |-> this_functions])
    /\ IF walkStack = <<>>
       THEN /\ functions' = this_functions
            /\ pc' = "analyzed"
            /\ UNCHANGED allFunctions
       ELSE /\ allFunctions' = allFunctions \o this_functions
            /\ pc' = "walk"
            /\ UNCHANGED functions
    /\ UNCHANGED <<disk, sourceFile, this_functions, threshold, report, args, walkStack>>

\* analyze, lines 51-54: an exception on the way through the tree is caught
\* and reported, and [] is returned, whatever this.functions holds
analyze_catch ==
    /\ pc = "visit"
    /\ stack # <<>>
    /\ sourceFile.tooDeep
    /\ stack' = <<>>
    /\ console' = Append(console, Say("error", "analysis error", sourceFile.fileName))
    /\ returned' = Append(returned, [path |-> sourceFile.fileName, list |-> <<>>])
    /\ IF walkStack = <<>>
       THEN /\ functions' = <<>>
            /\ pc' = "analyzed"
            /\ UNCHANGED allFunctions
       ELSE /\ allFunctions' = allFunctions \o <<>>
            /\ pc' = "walk"
            /\ UNCHANGED functions
    /\ UNCHANGED <<disk, sourceFile, this_functions, threshold, report, args, walkStack>>

\* the entry the walk on top of the stack comes to next, 0 when its
\* directory has none left
nextEntry ==
    LET top == walkStack[Len(walkStack)]
        cs == childrenFrom(disk, top.dir, top.next)
    IN  IF cs = {} THEN 0 ELSE CHOOSE c \in cs : \A d \in cs : c <= d

\* the walk on top of the stack gone past entry c
walkedPast(c) == [walkStack EXCEPT ![Len(walkStack)].next = c + 1]

\* walk, lines 222-230: the next entry is a directory; walk(filePath) unless
\* its name tells to skip it
walk_directory ==
    /\ pc = "walk"
    /\ walkStack # <<>>
    /\ nextEntry # 0
    /\ disk.kind[nextEntry] = "dir"
    /\ walkStack' = IF ~isSkippedDirectory(disk.name[nextEntry])
                    THEN Append(walkedPast(nextEntry),
                                [dir |-> nextEntry, next |-> nextEntry + 1])
                    ELSE walkedPast(nextEntry)
    /\ UNCHANGED <<pc, disk, sourceFile, stack, this_functions, functions, threshold,
                   report, args, allFunctions, console, returned>>

\* walk, lines 222-235: the next entry is no directory; it is analyzed if
\* its name ends in one of the extensions
walk_file ==
    /\ pc = "walk"
    /\ walkStack # <<>>
    /\ nextEntry # 0
    /\ disk.kind[nextEntry] # "dir"
    /\ walkStack' = walkedPast(nextEntry)
    /\ IF hasExtension(disk.name[nextEntry])
       THEN analyzeFile_call(nextEntry,
                Append(console, Say("log", "analyzing", pathOf(disk, nextEntry))), TRUE)
       ELSE UNCHANGED <<pc, sourceFile, stack, this_functions, functions, allFunctions,
                        console, returned>>
    /\ UNCHANGED <<disk, threshold, report, args>>

\* walk returns when its directory has no entry left; when the walk of the
\* target returns, analyzeDirectory returns allFunctions to main
walk_return ==
    /\ pc = "walk"
    /\ walkStack # <<>>
    /\ nextEntry = 0
    /\ walkStack' = SubSeq(walkStack, 1, Len(walkStack) - 1)
    /\ IF Len(walkStack) = 1
       THEN /\ functions' = allFunctions
            /\ pc' = "analyzed"
       ELSE UNCHANGED <<functions, pc>>
    /\ UNCHANGED <<disk, sourceFile, stack, this_functions, threshold, report, args,
                   allFunctions, console, returned>>

\* printSummary(functions, threshold); functions.sort sorts main's array in
\* place
printSummary ==
    /\ pc = "analyzed"
    /\ report' = summaryOf(functions, threshold)
    /\ functions' = IF Len(functions) = 0 THEN functions ELSE sort(functions)
    /\ pc' = "done"
    /\ UNCHANGED <<disk, sourceFile, stack, this_functions, threshold, args, walkStack,
                   allFunctions, console, returned>>

-----------------------------------------------------------------------------
(* The files and command lines the model runs the program on               *)

\* the kinds around the one node of any kind
CoreKinds == {"FunctionDeclaration", "IfStatement"}
NestKinds == {"ArrowFunction", "IfStatement", "Block"}
\* the kinds under the function of a file of switch statements, of try
\* statements, of expressions
SwitchKinds == {"SwitchStatement", "CaseBlock", "CaseClause", "DefaultClause", "IfStatement"}
TryKinds == {"TryStatement", "Block", "CatchClause"}
ExprKinds == {"ConditionalExpression", "BinaryExpression"}
LayoutKinds == {"FunctionDeclaration", "IfStatement"}

\* functions with and without a name of their own, under nodes that have a
\* name and under one that has none; '' is the text of the identifier the
\* parser makes up for `function () {}`
NameLabels ==
    {Label("FunctionDeclaration", "none", "f"), Label("FunctionDeclaration", "none", ""),
     Label("FunctionDeclaration", "none", NoName), Label("MethodDeclaration", "none", "m"),
     Label("FunctionExpression", "none", "g"), Label("FunctionExpression", "none", NoName),
     Label("ArrowFunction", "none", NoName), Label("VariableDeclaration", "none", "v"),
     Label("PropertyAssignment", "none", "p"), Label("Block", "none", NoName)}

\* a parameter, the pattern and the elements of a destructuring parameter;
\* a rest parameter (`...a`, the op of the label) and an arrow function,
\* under a parameter its default value
ParamLabels ==
    {Label("Parameter", "none", "a"), Label("ObjectBindingPattern", "none", NoName),
     Label("BindingElement", "none", "b")}

\* of these a tree of parameters holds one at most
ParamLabelsOnce ==
    {Label("Parameter", "...", "a"), Label("ArrowFunction", "none", NoName)}

\* the same tree, its text broken into lines before the first tokens of the
\* nodes of `opens` and before the last tokens of the nodes of `closes`
LaidOut(t, opens, closes) == [t EXCEPT !.nlOpen = opens, !.nlClose = closes]

LayoutFiles ==
    {LaidOut(t, o, c) :
        <<t, o, c>> \in
          {x \in TreesOver(EmptyFile, LabelsOf(LayoutKinds), {}, MaxLayoutNodes)
                   \X (SUBSET (2..MaxLayoutNodes)) \X (SUBSET (1..MaxLayoutNodes)) :
             x[2] \subseteq 2..x[1].n /\ x[3] \subseteq 1..x[1].n}}

\* t is one of the files: a tree of a family, of a size within its bound
IsFile(t) ==
    \/ \E k \in 1..MaxNodes :
          t \in TreesOfSize(EmptyFile, LabelsOf(CoreKinds), LabelsOf(SyntaxKinds), k)
    \/ \E k \in 1..MaxNestNodes :
          t \in TreesOfSize(EmptyFile, LabelsOf(NestKinds), {}, k)
    \/ \E k \in 2..MaxSwitchNodes :
          t \in TreesOfSize(OneFunctionFile, LabelsOf(SwitchKinds), {}, k)
    \/ \E k \in 2..MaxTryNodes :
          t \in TreesOfSize(OneFunctionFile, LabelsOf(TryKinds), {}, k)
    \/ \E k \in 2..MaxExprNodes :
          t \in TreesOfSize(OneFunctionFile, LabelsOf(ExprKinds), {}, k)
    \/ \E k \in 1..MaxNameNodes : t \in TreesOfSize(EmptyFile, NameLabels, {}, k)
    \/ \E k \in 2..MaxParamNodes :
          t \in TreesOfSize(OneFunctionFile, ParamLabels, ParamLabelsOnce, k)
    \/ t \in LayoutFiles

\* the target is a file of TypeScript that can be read; sourceFile is its
\* tree from the start
Init ==
    /\ pc = "start"
    /\ IsFile(sourceFile)
    /\ disk = TargetDisk(EntryLabel("file", TargetPath, Readable(sourceFile)))
    /\ args = <<TargetPath>>
    /\ stack = <<>>
    /\ this_functions = <<>>
    /\ functions = <<>>
    /\ threshold = Num(10)
    /\ report = NoReport
    /\ walkStack = <<>>
    /\ allFunctions = <<>>
    /\ console = <<>>
    /\ returned = <<>>

Next ==
    \/ main_parseArgs
    \/ main_checkPath
    \/ analyzeFile
    \/ visitNode
    \/ visitNode_return
    \/ analyze_return
    \/ printSummary

Spec == Init /\ [][Next]_vars

-----------------------------------------------------------------------------
(* analyzeFile called again for the file it has analyzed                   *)

\* analyzeFile(targetPath) once more, after it has returned
analyzeFile_again ==
    /\ pc = "analyzed"
    /\ Len(returned) < MaxCalls
    /\ analyzeFile_call(1, console, FALSE)
    /\ UNCHANGED <<disk, threshold, report, args, walkStack>>

\* the target is a file of functions in functions
InitAgain ==
    /\ pc = "start"
    /\ \E k \in 1..MaxNestNodes :
          sourceFile \in TreesOfSize(EmptyFile, LabelsOf(NestKinds), {}, k)
    /\ disk = TargetDisk(EntryLabel("file", TargetPath, Readable(sourceFile)))
    /\ args = <<TargetPath>>
    /\ stack = <<>>
    /\ this_functions = <<>>
    /\ functions = <<>>
    /\ threshold = Num(10)
    /\ report = NoReport
    /\ walkStack = <<>>
    /\ allFunctions = <<>>
    /\ console = <<>>
    /\ returned = <<>>

NextAgain ==
    \/ main_parseArgs
    \/ main_checkPath
    \/ analyzeFile
    \/ visitNode
    \/ visitNode_return
    \/ analyze_return
    \/ analyzeFile_again
    \/ printSummary

SpecAgain == InitAgain /\ [][NextAgain]_vars

-----------------------------------------------------------------------------
(* main over a file system: a target that is missing, a file, a directory  *)
(* or neither                                                              *)

\* `function f() { if (a) {} }`, and the same too deep for the traversal
FunctionWithIf == Extend(OneFunctionFile, 2, Label("IfStatement", "none", NoName))
TooDeepFile == [FunctionWithIf EXCEPT !.tooDeep = TRUE]

\* a directory and a file that most disks hold
CoreEntries ==
    {EntryLabel("dir", <<"s">>, Unreadable),
     EntryLabel("file", <<"a", ".", "t", "s">>, Readable(OneFunctionFile))}

\* the directories walk skips and some it does not, files of every
\* extension and of none, a file that cannot be read and one too deep
OtherEntries ==
    {EntryLabel("dir", nm, Unreadable) :
        nm \in {<<"d", "i", "s", "t">>, <<".", "g">>, <<"d", "i", "s", "t", "x">>,
                <<"n", "o", "d", "e", "_", "m", "o", "d", "u", "l", "e", "s">>,
                <<"b", ".", "t", "s">>}}
    \cup {EntryLabel("file", nm, Readable(OneFunctionFile)) :
            nm \in {<<"b", ".", "t", "s", "x">>, <<"c", ".", "j", "s">>,
                    <<"d", ".", "j", "s", "x">>, <<"e", ".", "m", "d">>, <<"t", "s">>,
                    <<".", "t", "s">>, <<"d", "i", "s", "t">>}}
    \cup {EntryLabel("file", <<"u", ".", "t", "s">>, Unreadable),
          EntryLabel("file", <<"v", ".", "j", "s">>, Readable(TooDeepFile))}

\* the target paths that are a directory
RootDisks ==
    {TargetDisk(EntryLabel("dir", nm, Unreadable)) :
        nm \in {<<"s">>, <<".">>, <<"d", "i", "s", "t">>}}

\* a target that is missing, that is neither a file nor a directory, and
\* targets that are a file
OtherTargets ==
    {TargetDisk(EntryLabel("missing", <<"a", ".", "t", "s">>, Unreadable)),
     TargetDisk(EntryLabel("other", <<"a", ".", "t", "s">>, Unreadable))}
    \cup {TargetDisk(lab) : lab \in {l \in CoreEntries \cup OtherEntries : l.kind = "file"}}

RECURSIVE DisksOfSize(_, _)
\* every disk of n entries under the directory `base`: entry k+1 is in the
\* directory of entry k, in entry k if that is a directory, or in one of
\* the directories above; no directory holds a name twice; at most one entry
\* is none of CoreEntries
DisksOfSize(base, n) ==
    IF n <= 1 THEN {base}
    ELSE {ExtendDisk(c[1], c[2], c[3]) :
            c \in {x \in DisksOfSize(base, n - 1) \X (1..(n - 1))
                           \X (CoreEntries \cup OtherEntries) :
                     /\ x[2] \in {x[1].n} \cup Ancestors(x[1], x[1].n)
                     /\ x[1].kind[x[2]] = "dir"
                     /\ \A e \in 1..x[1].n :
                           x[1].parent[e] = x[2] => x[1].name[e] # x[3].name
                     /\ x[3] \in CoreEntries
                        \/ \A e \in 2..x[1].n :
                              EntryLabel(x[1].kind[e], x[1].name[e], x[1].content[e])
                                 \in CoreEntries}}

\* d is one of the disks
IsDisk(d) ==
    \/ d \in OtherTargets
    \/ \E k \in 1..MaxEntries : \E root \in RootDisks : d \in DisksOfSize(root, k)

InitRun ==
    /\ pc = "start"
    /\ IsDisk(disk)
    /\ sourceFile = EmptyFile
    /\ args = <<disk.name[1]>>
    /\ stack = <<>>
    /\ this_functions = <<>>
    /\ functions = <<>>
    /\ threshold = Num(10)
    /\ report = NoReport
    /\ walkStack = <<>>
    /\ allFunctions = <<>>
    /\ console = <<>>
    /\ returned = <<>>

NextRun ==
    \/ main_parseArgs
    \/ main_checkPath
    \/ analyzeFile
    \/ walk_directory
    \/ walk_file
    \/ walk_return
    \/ visitNode
    \/ visitNode_return
    \/ analyze_return
    \/ analyze_catch
    \/ printSummary

SpecRun == InitRun /\ [][NextRun]_vars

-----------------------------------------------------------------------------
(* The report on its own: main with the analysis left open. Whatever      *)
(* analyzeFile or analyzeDirectory return is a list of records.            *)

\* the complexities next to the edges of the bands and of the thresholds
EdgeComplexities == {9, 10, 11, 20, 21, 50, 51}

\* the i-th record of a list, of complexity c and of i lines
RecordOf(i, c) ==
    [name |-> "f", filePath |-> TargetPath, lineNumber |-> i,
     cyclomaticComplexity |-> c, linesOfCode |-> i, maxNestingDepth |-> 0,
     parameterCount |-> 0, node |-> i]

\* the complexities of lists of about ten records and more: rising from 9
\* on, all 10, and 9 and 21 in turn
LongComplexities ==
    UNION {{[i \in 1..k |-> 8 + i], [i \in 1..k |-> 10],
            [i \in 1..k |-> IF i % 2 = 1 THEN 9 ELSE 21]} :
              k \in (MaxLongFunctions - 3)..MaxLongFunctions}

RecordLists ==
    {[i \in 1..Len(cs) |-> RecordOf(i, cs[i])] :
        cs \in UNION {[1..k -> EdgeComplexities] : k \in 0..MaxFunctions}
              \cup [1..1 -> 1..MaxComplexity]
              \cup LongComplexities}

ThresholdTexts ==
    {<<"1", "0">>, <<"1", "1">>, <<"2", "1">>, <<"5", "1">>, <<"9", "x">>, <<"a">>, <<>>}

SummaryArgs ==
    {<<>>, <<TargetPath>>, <<TargetPath, ThresholdFlag>>}
    \cup {<<TargetPath, ThresholdFlag, v>> : v \in ThresholdTexts}

\* main, lines 373-389: the analysis of the target returns a list of records
analyzeTarget ==
    /\ pc = "parsed"
    /\ functions' \in RecordLists
    /\ pc' = "analyzed"
    /\ UNCHANGED <<disk, sourceFile, stack, this_functions, threshold, report, args,
                   walkStack, allFunctions, console, returned>>

InitSummary ==
    /\ pc = "start"
    /\ sourceFile = EmptyFile
    /\ disk = TargetDisk(EntryLabel("file", TargetPath, Readable(EmptyFile)))
    /\ args \in SummaryArgs
    /\ stack = <<>>
    /\ this_functions = <<>>
    /\ functions = <<>>
    /\ threshold = Num(10)
    /\ report = NoReport
    /\ walkStack = <<>>
    /\ allFunctions = <<>>
    /\ console = <<>>
    /\ returned = <<>>

NextSummary ==
    \/ main_parseArgs
    \/ analyzeTarget
    \/ printSummary

SpecSummary == InitSummary /\ [][NextSummary]_vars

-----------------------------------------------------------------------------
(* What the claims speak of, said without the analyzer's traversals        *)

Records == {this_functions[i] : i \in 1..Len(this_functions)}

DecisionKinds ==
    {"IfStatement", "ConditionalExpression", "WhileStatement", "DoStatement",
     "ForStatement", "ForInStatement", "ForOfStatement", "CaseClause", "CatchClause"}

NestingConstructs ==
    {"IfStatement", "WhileStatement", "DoStatement", "ForStatement",
     "ForInStatement", "ForOfStatement", "TryStatement", "SwitchStatement"}

\* the decision points among the nodes of `nodes`, a logical operator && or ||
\* being one
DecisionPoints(t, nodes) ==
    {d \in nodes : t.kind[d] \in DecisionKinds}
    \cup {d \in nodes : t.kind[d] = "BinaryExpression" /\ t.op[d] \in {"&&", "||"}}

\* the nesting constructs on the path from f (excluded) down to d (included)
NestCount(t, f, d) ==
    Cardinality({x \in Ancestors(t, d) \cup {d} :
                    x > f /\ f \in Ancestors(t, x) /\ t.kind[x] \in NestingConstructs})

MaxOfSet(S) == CHOOSE m \in S : \A x \in S : x <= m

RECURSIVE Preorder(_, _), PreorderFrom(_, _, _)
\* the nodes of the subtree of i in pre-order
Preorder(t, i) == <<i>> \o PreorderFrom(t, i, i + 1)

PreorderFrom(t, i, j) ==
    IF j > t.n THEN <<>>
    ELSE (IF t.parent[j] = i THEN Preorder(t, j) ELSE <<>>) \o PreorderFrom(t, i, j + 1)

\* the case clauses of the switch statement s
CaseClausesOf(t, s) ==
    {c \in 1..t.n : /\ t.kind[c] = "CaseClause"
                    /\ t.kind[t.parent[c]] = "CaseBlock"
                    /\ t.parent[t.parent[c]] = s}

\* the tree with the switch statement s made a block and its case clauses
\* made default clauses: the same shape, nothing of s left to count
WithoutSwitch(t, s) ==
    [t EXCEPT !.kind = [i \in 1..t.n |->
        IF i = s THEN "Block"
        ELSE IF i \in CaseClausesOf(t, s) THEN "DefaultClause"
        ELSE t.kind[i]]]

-----------------------------------------------------------------------------
(* Claims about the analysis of one file (specification Spec)              *)

\* C1: the cyclomaticComplexity of every record is 1, plus the number of
\* descendants of its function node that are an if, a ternary, a while, a
\* do-while, a for, a for-in, a for-of, a case clause or a catch clause, plus
\* the number of descendant binary expressions whose operator is && or ||;
\* no other node changes it.
C1_ComplexityCountsDecisionPoints ==
    \A r \in Records :
        r.cyclomaticComplexity
          = 1 + Cardinality({d \in Descendants(sourceFile, r.node) :
                                sourceFile.kind[d] \in DecisionKinds})
              + Cardinality({d \in Descendants(sourceFile, r.node) :
                                /\ sourceFile.kind[d] = "BinaryExpression"
                                /\ sourceFile.op[d] \in {"&&", "||"}})

\* a function like `function i(a, b) { return a && b || false }`, analyzed
C1_Witness ==
    \E r \in Records :
        /\ r.cyclomaticComplexity = 3
        /\ \E d, e \in Descendants(sourceFile, r.node) :
              /\ sourceFile.kind[d] = "BinaryExpression" /\ sourceFile.op[d] = "||"
              /\ sourceFile.kind[e] = "BinaryExpression" /\ sourceFile.op[e] = "&&"
              /\ sourceFile.parent[e] = d

\* C2: every record has cyclomaticComplexity >= 1, linesOfCode >= 1,
\* maxNestingDepth >= 0, parameterCount >= 0 and lineNumber >= 1.
C2_RecordBounds ==
    \A r \in Records \cup {functions[i] : i \in 1..Len(functions)} :
        /\ r.cyclomaticComplexity >= 1
        /\ r.linesOfCode >= 1
        /\ r.maxNestingDepth >= 0
        /\ r.parameterCount >= 0
        /\ r.lineNumber >= 1

\* a function on one line, behind the first line of its file, and a function
\* over several lines
C2_Witness ==
    /\ pc = "analyzed"
    /\ \E r \in Records : r.linesOfCode = 1 /\ r.lineNumber > 1
    /\ \E r \in Records : r.linesOfCode > 1

\* C3: a switch statement with k case clauses inside a function adds exactly
\* k to the function's cyclomaticComplexity (its header adds nothing), and
\* whatever k is, the depth reached inside it is one more than the depth
\* reached were it no nesting construct.
C3_SwitchAddsItsCases ==
    \A r \in Records :
        \A s \in Descendants(sourceFile, r.node) :
            sourceFile.kind[s] = "SwitchStatement" =>
                LET without == WithoutSwitch(sourceFile, s)
                    k == Cardinality(CaseClausesOf(sourceFile, s))
                    d == NestCount(sourceFile, r.node, sourceFile.parent[s])
                IN  /\ r.cyclomaticComplexity
                          = calculateComplexity(without, r.node) + k
                    /\ calculateMaxNesting_visit(sourceFile, s, d, d)
                          = calculateMaxNesting_visit(without, s, d, d) + 1
                    /\ r.maxNestingDepth >= d + 1

\* a function whose switch has two case clauses, one of them holding a switch
C3_Witness ==
    \E r \in Records :
        \E s \in Descendants(sourceFile, r.node) :
            /\ sourceFile.kind[s] = "SwitchStatement"
            /\ Cardinality(CaseClausesOf(sourceFile, s)) = 2
            /\ r.cyclomaticComplexity = 3
            /\ r.maxNestingDepth = 1

\* C4: maxNestingDepth is the maximum, over the descendants of the function
\* node, of the number of nesting constructs (if, while, do-while, for,
\* for-in, for-of, try, switch) on the path from the function node down to
\* and including the descendant; 0 when there is none.
C4_MaxNestingIsDeepestPath ==
    \A r \in Records :
        r.maxNestingDepth
          = MaxOfSet({0} \cup {NestCount(sourceFile, r.node, d) :
                                  d \in Descendants(sourceFile, r.node)})

\* `if (a) { if (b) { ... } }` beside a shallower statement
C4_Witness ==
    \E r \in Records :
        /\ r.maxNestingDepth = 2
        /\ \E d \in Descendants(sourceFile, r.node) :
              /\ sourceFile.kind[d] \in NestingConstructs
              /\ NestCount(sourceFile, r.node, d) = 1
              /\ Descendants(sourceFile, d) = {}

\* the function-like nodes of the tree, in pre-order
FunctionNodesInOrder ==
    SelectSeq(Preorder(sourceFile, 1), LAMBDA i : sourceFile.kind[i] \in FunctionLikeKinds)

\* C5: when analyze returns on a fresh analyzer, there is exactly one record
\* per function-like node of the tree, nested ones included, and the records
\* are in the pre-order of their nodes.
C5_OneRecordPerFunctionInPreorder ==
    pc = "analyzed" =>
        /\ Len(functions) = Len(FunctionNodesInOrder)
        /\ \A i \in 1..Len(functions) : functions[i].node = FunctionNodesInOrder[i]

\* a function holding a function, and a third function behind them
C5_Witness ==
    /\ pc = "analyzed"
    /\ Len(functions) = 3
    /\ functions[2].node \in Descendants(sourceFile, functions[1].node)
    /\ functions[3].node \notin Descendants(sourceFile, functions[1].node)

\* C6: with f nested in g, the complexity of g less 1 is the number of the
\* decision points of g outside f plus the complexity of f less 1.
C6_NestedDecisionsCountTwice ==
    \A rg, rf \in Records :
        rf.node \in Descendants(sourceFile, rg.node) =>
            rg.cyclomaticComplexity - 1
              = Cardinality(DecisionPoints(sourceFile,
                    Descendants(sourceFile, rg.node)
                      \ ({rf.node} \cup Descendants(sourceFile, rf.node))))
                + (rf.cyclomaticComplexity - 1)

\* g holds a decision point of its own and f, which holds one
C6_Witness ==
    \E rg, rf \in Records :
        /\ rf.node \in Descendants(sourceFile, rg.node)
        /\ rf.cyclomaticComplexity = 2
        /\ rg.cyclomaticComplexity = 3

\* C7: with f nested in g under d nesting constructs of g, the constructs of
\* f count from d on for g (one directly in f is at depth d + 1), and from 0
\* on for f's own record.
C7_DepthRunsThroughNestedFunctions ==
    \A rg, rf \in Records :
        rf.node \in Descendants(sourceFile, rg.node) =>
            LET d == NestCount(sourceFile, rg.node, rf.node)
            IN  /\ rf.maxNestingDepth = calculateMaxNesting(sourceFile, rf.node, 0)
                /\ rg.maxNestingDepth >= d + rf.maxNestingDepth
                /\ \A c \in Descendants(sourceFile, rf.node) :
                      sourceFile.kind[c] \in NestingConstructs =>
                          rg.maxNestingDepth
                            >= d + NestCount(sourceFile, rf.node, c)
                /\ (Descendants(sourceFile, rg.node)
                       \subseteq Ancestors(sourceFile, rf.node) \cup {rf.node}
                                   \cup Descendants(sourceFile, rf.node))
                      => rg.maxNestingDepth
                           = MaxOfSet({d + rf.maxNestingDepth, d})

\* g's if holds f, which holds an if: depth 2 for g, depth 1 for f
C7_Witness ==
    \E rg, rf \in Records :
        /\ rf.node \in Descendants(sourceFile, rg.node)
        /\ NestCount(sourceFile, rg.node, rf.node) = 1
        /\ rf.maxNestingDepth = 1
        /\ rg.maxNestingDepth = 2

-----------------------------------------------------------------------------
(* Claims about the report (specification SpecSummary); there the          *)
(* lineNumber of a record is its place in the order of discovery           *)

Ranked == pc = "done" /\ report.outcome \in {"allBelow", "full"}

\* C8: ranking orders the records by cyclomaticComplexity, descending, and
\* records of equal cyclomaticComplexity keep their order of discovery.
C8_RankingDescendingAndStable ==
    Ranked =>
        /\ functions = report.sorted
        /\ {report.sorted[i].lineNumber : i \in 1..Len(report.sorted)}
              = 1..Len(report.sorted)
        /\ \A i, j \in 1..Len(report.sorted) :
              i < j =>
                /\ report.sorted[i].cyclomaticComplexity
                      >= report.sorted[j].cyclomaticComplexity
                /\ report.sorted[i].cyclomaticComplexity
                      = report.sorted[j].cyclomaticComplexity
                    => report.sorted[i].lineNumber < report.sorted[j].lineNumber

\* three records, the last discovered ranked first, the two others tied
C8_Witness ==
    /\ Ranked
    /\ Len(report.sorted) = 3
    /\ report.sorted[1].lineNumber = 3
    /\ report.sorted[2].cyclomaticComplexity = report.sorted[3].cyclomaticComplexity
    /\ report.sorted[2].lineNumber = 1

\* the i-th element of s is kept by a filter at or above t
Kept(s, i, t) == s[i].cyclomaticComplexity >= t

\* C9: filtering with threshold t returns exactly the records of
\* cyclomaticComplexity >= t (t itself included, t - 1 excluded), in ranked
\* order; t is 10 when the command line gives no threshold.
C9_FilterAtOrAboveThreshold ==
    /\ (pc # "start" /\ \A i \in 1..Len(args) : args[i] # ThresholdFlag)
          => threshold = Num(10)
    /\ Ranked =>
          LET t == threshold.val
              kept == {i \in 1..Len(report.sorted) : Kept(report.sorted, i, t)}
          IN  /\ ~threshold.nan
              /\ Len(report.complex) = Cardinality(kept)
              /\ \A i \in kept :
                    report.complex[Cardinality({j \in kept : j <= i})] = report.sorted[i]

\* a record at the threshold is kept, one just below it is not
C9_Witness ==
    /\ Ranked
    /\ \E i \in 1..Len(report.complex) :
          report.complex[i].cyclomaticComplexity = threshold.val
    /\ \E i \in 1..Len(report.sorted) :
          report.sorted[i].cyclomaticComplexity = threshold.val - 1
    /\ \A i \in 1..Len(report.complex) :
          report.complex[i].cyclomaticComplexity # threshold.val - 1
    /\ threshold.val # 10

\* the band of the claim for complexity c
BandOf(c) ==
    IF c \in 1..10 THEN "simple"
    ELSE IF c \in 11..20 THEN "moderate"
    ELSE IF c \in 21..50 THEN "complex"
    ELSE "very complex"

\* the bands whose test in printSummary's distribution c passes
BandsCounting(c) ==
    {b \in {"simple", "moderate", "complex", "very complex"} :
        \/ b = "simple" /\ isSimple(c)
        \/ b = "moderate" /\ isModerate(c)
        \/ b = "complex" /\ isComplex(c)
        \/ b = "very complex" /\ isVeryComplex(c)}

\* C10: every complexity c >= 1 is in exactly one band, simple for 1..10,
\* moderate for 11..20, complex for 21..50, very complex from 51 on, by
\* getComplexityRating and by the tests of printSummary's distribution
\* alike; the distribution counts each record in the band of its rating.
C10_BandsAgree ==
    /\ \A i \in 1..Len(functions) :
          LET c == functions[i].cyclomaticComplexity
          IN  /\ getComplexityRating(c) = BandOf(c)
              /\ BandsCounting(c) = {BandOf(c)}
    /\ (pc = "done" /\ report.outcome = "full") =>
          LET n(b) == Cardinality({i \in 1..Len(functions) :
                         getComplexityRating(functions[i].cyclomaticComplexity) = b})
          IN  /\ report.simple = n("simple")
              /\ report.moderate = n("moderate")
              /\ report.complexCount = n("complex")
              /\ report.veryComplex = n("very complex")

\* a report over records at the upper edges of two bands and above the last
C10_Witness ==
    /\ pc = "done"
    /\ report.outcome = "full"
    /\ report.moderate = 1
    /\ report.complexCount = 1
    /\ report.veryComplex = 1
    /\ \E i \in 1..Len(functions) : functions[i].cyclomaticComplexity = 50
    /\ \E i \in 1..Len(functions) : functions[i].cyclomaticComplexity = 20

\* the sum of the values of a function of finite domain
RECURSIVE SumOver(_)
SumOver(f) ==
    IF DOMAIN f = {} THEN 0
    ELSE LET i == CHOOSE i \in DOMAIN f : TRUE
         IN  f[i] + SumOver([j \in DOMAIN f \ {i} |-> f[j]])

\* C11: in the summary the four band counts partition the records of the
\* run (they sum to the number of functions, and each record passes the
\* test of exactly one band), and the average complexity, the average lines
\* and the maximum complexity are those of all the records of the run, not
\* of the records at or above the threshold.
C11_StatisticsOverAllRecords ==
    (pc = "done" /\ report.outcome = "full") =>
        LET all == 1..Len(functions)
        IN  /\ report.simple + report.moderate + report.complexCount
                  + report.veryComplex = Len(functions)
            /\ \A i \in all :
                  Cardinality(BandsCounting(functions[i].cyclomaticComplexity)) = 1
            /\ report.total = Len(functions)
            /\ report.sumComplexity
                  = SumOver([i \in all |-> functions[i].cyclomaticComplexity])
            /\ report.sumLines = SumOver([i \in all |-> functions[i].linesOfCode])
            /\ report.maxComplexity
                  = MaxOfSet({functions[i].cyclomaticComplexity : i \in all})

\* a summary of three records in three bands, one of them at or above the
\* threshold
C11_Witness ==
    /\ pc = "done"
    /\ report.outcome = "full"
    /\ Len(functions) = 3
    /\ Len(report.complex) = 1
    /\ report.simple = 1
    /\ report.moderate = 1
    /\ report.veryComplex = 1
    /\ report.sumLines = 6

\* C12: printSummary of no record at all stops at its first test, whatever
\* the threshold: it reports that there is nothing to analyze, and computes
\* no count, no average (no division by the number of records) and no band.
C12_EmptySummary ==
    pc = "done" =>
        /\ Len(functions) = 0 => (report.outcome = "empty" /\ DOMAIN report = {"outcome"})
        /\ report.outcome = "empty" => functions = <<>>

\* no record, and a threshold given on the command line
C12_Witness ==
    /\ pc = "done"
    /\ functions = <<>>
    /\ threshold = Num(51)
    /\ report.outcome = "empty"

-----------------------------------------------------------------------------
(* Further claims about the report (specification SpecSummary)             *)

\* how often x is in the sequence s
Occurrences(s, x) == Cardinality({i \in 1..Len(s) : s[i] = x})

\* s and u hold the same records, each as often in the one as in the other
SameRecords(s, u) ==
    /\ Len(s) = Len(u)
    /\ \A i \in 1..Len(s) : Occurrences(s, s[i]) = Occurrences(u, s[i])

\* C24: printSummary changes no field of any record. The collection it was
\* given holds the same records after it, each as often as before, only
\* their order changed; the ranked collection holds these same records, and
\* the filtered and the listed ones are records of the collection as they
\* were.
C24_RecordsNeverMutated ==
    [][pc = "analyzed" =>
          /\ SameRecords(functions, functions')
          /\ report'.outcome # "empty" =>
                /\ SameRecords(functions, report'.sorted)
                /\ \A i \in 1..Len(report'.complex) :
                      Occurrences(functions, report'.complex[i])
                        = Occurrences(report'.complex, report'.complex[i])
          /\ report'.outcome = "full" =>
                \A i \in 1..Len(report'.listed) :
                   Occurrences(functions, report'.listed[i]) = 1]_vars

\* three records have been ranked, filtered and summarized, and the one
\* discovered first is no more the first of the collection
C24_Witness ==
    /\ pc = "done"
    /\ report.outcome = "full"
    /\ Len(functions) = 3
    /\ functions[1].lineNumber = 2
    /\ functions[3].lineNumber = 1
    /\ Len(report.complex) = 2

\* what printSummary computes behind its second test
StatisticsAndBands ==
    {"total", "sumComplexity", "sumLines", "maxComplexity", "simple", "moderate",
     "complexCount", "veryComplex"}

\* some record of the collection is at or above the threshold
SomeAtOrAbove ==
    \E i \in 1..Len(functions) : functions[i].cyclomaticComplexity >= threshold.val

\* C28: printSummary computes the statistics and the band counts if and
\* only if some record has cyclomaticComplexity >= threshold. Of a
\* collection that is not empty and has no such record it ranks and filters,
\* reports that all are below the threshold and returns: no average, no
\* maximum, no band count.
C28_StatisticsOnlyAboveThreshold ==
    pc = "done" =>
        /\ report.outcome = "full" <=> SomeAtOrAbove
        /\ StatisticsAndBands \subseteq DOMAIN report <=> SomeAtOrAbove
        /\ (functions # <<>> /\ ~SomeAtOrAbove) =>
              /\ report.outcome = "allBelow"
              /\ report.complex = <<>>
              /\ DOMAIN report \cap (StatisticsAndBands \cup {"listed"}) = {}

\* three records, the most complex of complexity 50, under a threshold of 51
C28_Witness ==
    /\ pc = "done"
    /\ Len(functions) = 3
    /\ functions[1].cyclomaticComplexity = 50
    /\ threshold = Num(51)
    /\ report.outcome = "allBelow"

\* C29: the functions printSummary lists are the first min(10, n) of the
\* ranked and filtered collection, n being the number of records at or above
\* the threshold: never more than 10, each of cyclomaticComplexity >=
\* threshold, and each at least as complex as every record that is not
\* listed.
C29_ListsTheTopTen ==
    (pc = "done" /\ report.outcome = "full") =>
        LET n == Cardinality({i \in 1..Len(functions) :
                                 functions[i].cyclomaticComplexity >= threshold.val})
            listed == report.listed
            unlisted == {functions[i] : i \in 1..Len(functions)}
                           \ {listed[i] : i \in 1..Len(listed)}
        IN  /\ Len(listed) = (IF n < 10 THEN n ELSE 10)
            /\ Len(listed) <= 10
            /\ \A i \in 1..Len(listed) :
                  /\ listed[i] = report.complex[i]
                  /\ listed[i].cyclomaticComplexity >= threshold.val
                  /\ \A u \in unlisted :
                        listed[i].cyclomaticComplexity >= u.cyclomaticComplexity
            /\ Cardinality(unlisted) = Len(functions) - Len(listed)

\* twelve records, eleven of them at or above the threshold: ten are listed,
\* one at the threshold and one below it are not
C29_Witness ==
    /\ pc = "done"
    /\ report.outcome = "full"
    /\ Len(functions) = 12
    /\ Len(report.complex) = 11
    /\ Len(report.listed) = 10
    /\ report.complex[11].cyclomaticComplexity = threshold.val
    /\ report.listed[10].cyclomaticComplexity = threshold.val + 1

-----------------------------------------------------------------------------
(* Further claims about the analysis of one file (specification Spec)      *)

\* the number i after a node has been put in at number q
Shifted(i, q) == IF i >= q THEN i + 1 ELSE i

\* the places in document order where a new last-level child of p can go:
\* before the first child of p, or right behind the subtree of a child
LeafPlaces(t, p) ==
    {p + 1} \cup {LastOf(t, c) + 1 : c \in {d \in 1..t.n : t.parent[d] = p}}

\* the tree t with a new childless node of label lab under p, at number q
InsertLeaf(t, p, q, lab) ==
    [t EXCEPT
       !.n = t.n + 1,
       !.parent = [i \in 1..(t.n + 1) |->
                      IF i < q THEN t.parent[i]
                      ELSE IF i = q THEN p
                      ELSE Shifted(t.parent[i - 1], q)],
       !.kind = [i \in 1..(t.n + 1) |->
                      IF i < q THEN t.kind[i] ELSE IF i = q THEN lab.kind ELSE t.kind[i - 1]],
       !.op = [i \in 1..(t.n + 1) |->
                      IF i < q THEN t.op[i] ELSE IF i = q THEN lab.op ELSE t.op[i - 1]],
       !.name = [i \in 1..(t.n + 1) |->
                      IF i < q THEN t.name[i] ELSE IF i = q THEN lab.name ELSE t.name[i - 1]],
       !.nlOpen = {Shifted(i, q) : i \in t.nlOpen},
       !.nlClose = {Shifted(i, q) : i \in t.nlClose}]

\* the tree t with a new node of label lab in the place of node c, and c,
\* with all that is under it, made the child of the new node
Wrap(t, c, lab) ==
    [t EXCEPT
       !.n = t.n + 1,
       !.parent = [i \in 1..(t.n + 1) |->
                      IF i <= c THEN t.parent[i]
                      ELSE IF i = c + 1 THEN c
                      ELSE Shifted(t.parent[i - 1], c)],
       !.kind = [i \in 1..(t.n + 1) |->
                      IF i < c THEN t.kind[i] ELSE IF i = c THEN lab.kind ELSE t.kind[i - 1]],
       !.op = [i \in 1..(t.n + 1) |->
                      IF i < c THEN t.op[i] ELSE IF i = c THEN lab.op ELSE t.op[i - 1]],
       !.name = [i \in 1..(t.n + 1) |->
                      IF i < c THEN t.name[i] ELSE IF i = c THEN lab.name ELSE t.name[i - 1]],
       !.nlOpen = {Shifted(i, c) : i \in t.nlOpen},
       !.nlClose = {Shifted(i, c) : i \in t.nlClose}]

\* an if, a while, an && and an ||
AddedOccurrences ==
    {Label("IfStatement", "none", NoName), Label("WhileStatement", "none", NoName),
     Label("BinaryExpression", "&&", NoName), Label("BinaryExpression", "||", NoName)}

\* u is t with one node more under the function node f, and nothing else
\* changed: the nodes under f are one more, those of each kind but the new
\* one's as many as before
OneMoreUnder(t, u, f, lab) ==
    LET before == Descendants(t, f)
        after == Descendants(u, f)
    IN  /\ Cardinality(after) = Cardinality(before) + 1
        /\ \A k \in ({t.kind[d] : d \in before} \cup {u.kind[d] : d \in after})
                       \ {lab.kind} :
              Cardinality({d \in after : u.kind[d] = k})
                = Cardinality({d \in before : t.kind[d] = k})
        /\ u.kind[f] = t.kind[f]

\* C14: one more if, while, && or || anywhere under a function node, as a
\* new childless node or around a node that is there, with nothing else
\* changed, makes the function's cyclomaticComplexity greater by exactly 1.
C14_OneMoreDecisionOneMoreComplexity ==
    pc = "analyzed" =>
        \A lab \in AddedOccurrences :
            /\ \A p \in 2..sourceFile.n :
                  Allowed(sourceFile.kind[p], lab.kind) =>
                     \A q \in LeafPlaces(sourceFile, p) :
                        LET u == InsertLeaf(sourceFile, p, q, lab)
                        IN  \A r \in Records :
                               (p = r.node \/ r.node \in Ancestors(sourceFile, p)) =>
                                  /\ OneMoreUnder(sourceFile, u, r.node, lab)
                                  /\ calculateComplexity(u, r.node)
                                        = r.cyclomaticComplexity + 1
            /\ \A c \in 2..sourceFile.n :
                  (/\ Allowed(sourceFile.kind[sourceFile.parent[c]], lab.kind)
                   /\ Allowed(lab.kind, sourceFile.kind[c])) =>
                     LET u == Wrap(sourceFile, c, lab)
                     IN  \A r \in Records :
                            r.node \in Ancestors(sourceFile, c) =>
                               /\ OneMoreUnder(sourceFile, u, r.node, lab)
                               /\ calculateComplexity(u, r.node)
                                     = r.cyclomaticComplexity + 1

\* a function of complexity 2 that holds a function: an || put into the
\* inner one makes the complexity of the outer one 3
C14_Witness ==
    /\ pc = "analyzed"
    /\ \E rg, rf \in Records :
          /\ rf.node \in Descendants(sourceFile, rg.node)
          /\ rg.cyclomaticComplexity = 2
          /\ calculateComplexity(
                InsertLeaf(sourceFile, rf.node, rf.node + 1,
                           Label("BinaryExpression", "||", NoName)), rg.node) = 3

\* the name an analyzed node has of its own, as a declaration or a method
DeclaredName(t, n) ==
    IF t.kind[n] \in {"FunctionDeclaration", "MethodDeclaration"} THEN t.name[n] ELSE NoName

\* C19: the name of every record is not empty, and it is the name of the
\* function declaration or method declaration if there is one; else the
\* name of the variable when the function is the initializer of a variable
\* declaration; else the name of the property when it is the value of a
\* property assignment; else "(anonymous)".
C19_NamePrecedence ==
    \A r \in Records :
        LET n == r.node
            p == sourceFile.parent[n]
        IN  /\ r.name # ""
            /\ r.name # NoName
            /\ r.name =
                  IF DeclaredName(sourceFile, n) \notin {NoName, ""}
                  THEN DeclaredName(sourceFile, n)
                  ELSE IF sourceFile.kind[p] = "VariableDeclaration" THEN sourceFile.name[p]
                  ELSE IF sourceFile.kind[p] = "PropertyAssignment" THEN sourceFile.name[p]
                  ELSE "(anonymous)"

\* `const v = function g() {}` has been analyzed: the record is named v
C19_Witness ==
    \E r \in Records :
        /\ r.name = "v"
        /\ sourceFile.kind[r.node] = "FunctionExpression"
        /\ sourceFile.name[r.node] = "g"

\* what a text is made of: the first and the last token of each node, and
\* line breaks
Token(end, i) == [token |-> end, of |-> i]
LineBreak == Token("line break", 0)

RECURSIVE Render(_, _), RenderFrom(_, _, _)
\* the text of the subtree of i as its tokens and line breaks: the first
\* token of i, the texts of its children, the last token of i
Render(t, i) ==
    (IF i \in t.nlOpen THEN <<LineBreak>> ELSE <<>>) \o <<Token("first", i)>>
    \o RenderFrom(t, i, i + 1)
    \o (IF i \in t.nlClose THEN <<LineBreak>> ELSE <<>>) \o <<Token("last", i)>>

RenderFrom(t, i, j) ==
    IF j > t.n THEN <<>>
    ELSE (IF t.parent[j] = i THEN Render(t, j) ELSE <<>>) \o RenderFrom(t, i, j + 1)

\* node.getStart() and node.getEnd() as places in the text of the file
StartOffset(text, i) == CHOOSE k \in 1..Len(text) : text[k] = Token("first", i)
EndOffset(text, i) == CHOOSE k \in 1..Len(text) : text[k] = Token("last", i)

\* the 0-based line of a place of the text: the line breaks before it
LineOf(text, k) == Cardinality({j \in 1..(k - 1) : text[j] = LineBreak})

\* C20: when a file has been analyzed, linesOfCode of every record is
\* endLine - startLine + 1 for the lines of the start and of the end of the
\* function node, lineNumber is startLine counted from 1, and as the end is
\* not before the start, linesOfCode is at least 1.
C20_LinesOfCode ==
    pc = "analyzed" =>
        LET text == Render(sourceFile, 1)
        IN  \A r \in Records :
                LET startLine == LineOf(text, StartOffset(text, r.node))
                    endLine == LineOf(text, EndOffset(text, r.node))
                IN  /\ r.linesOfCode = endLine - startLine + 1
                    /\ r.lineNumber = startLine + 1
                    /\ EndOffset(text, r.node) >= StartOffset(text, r.node)
                    /\ r.linesOfCode >= 1

\* a function of three lines that starts on the second line of its file and
\* holds a function of one line
C20_Witness ==
    pc = "analyzed" /\ \E r, q \in Records :
        /\ r.linesOfCode = 3
        /\ r.lineNumber = 2
        /\ q.node \in Descendants(sourceFile, r.node)
        /\ q.linesOfCode = 1

-----------------------------------------------------------------------------
(* Claims about try statements, else-if chains, nested functions and       *)
(* default clauses (specification Spec)                                    *)

\* the catch clauses of the try statement s
CatchClausesOf(t, s) == {c \in 1..t.n : t.kind[c] = "CatchClause" /\ t.parent[c] = s}

\* the tree with the try statement s made a block: the same shape, the try
\* gone
WithoutTry(t, s) ==
    [t EXCEPT !.kind = [i \in 1..t.n |-> IF i = s THEN "Block" ELSE t.kind[i]]]

\* the tree with the catch clauses of s made blocks
WithoutCatch(t, s) ==
    [t EXCEPT !.kind = [i \in 1..t.n |->
        IF i \in CatchClausesOf(t, s) THEN "Block" ELSE t.kind[i]]]

\* the try block, the catch clause, its block and the finally block of the
\* try statement s, and the blocks in them: the nodes under s with no
\* nesting construct between s and them
PartsOfTry(t, s) ==
    {x \in Descendants(t, s) :
        /\ t.kind[x] \in {"Block", "CatchClause"}
        /\ \A a \in Ancestors(t, x) \cap Descendants(t, s) :
              t.kind[a] \notin NestingConstructs}

\* C22: a try statement at depth d in a function raises the depth by exactly
\* 1 as a unit: an if put into its try block, its catch clause or its finally
\* block is at depth d + 2 wherever it is put, so that their contents are
\* all at depth d + 1 and the catch clause adds no depth; the depth reached
\* from the try on is one more than were it a block; and the try statement
\* adds nothing to cyclomaticComplexity, each catch clause 1.
C22_TryNestsAsAUnit ==
    pc = "analyzed" =>
        \A r \in Records : \A s \in Descendants(sourceFile, r.node) :
            sourceFile.kind[s] = "TryStatement" =>
                LET d == NestCount(sourceFile, r.node, sourceFile.parent[s])
                    without == WithoutTry(sourceFile, s)
                IN  /\ \A p \in PartsOfTry(sourceFile, s) :
                          \A q \in LeafPlaces(sourceFile, p) :
                             calculateMaxNesting(
                                InsertLeaf(sourceFile, p, q,
                                           Label("IfStatement", "none", NoName)),
                                r.node, 0)
                               = Max(r.maxNestingDepth, d + 2)
                    /\ calculateMaxNesting_visit(sourceFile, s, d, d)
                          = calculateMaxNesting_visit(without, s, d, d) + 1
                    /\ r.maxNestingDepth >= d + 1
                    /\ r.cyclomaticComplexity = calculateComplexity(without, r.node)
                    /\ r.cyclomaticComplexity
                          = calculateComplexity(WithoutCatch(sourceFile, s), r.node)
                              + Cardinality(CatchClausesOf(sourceFile, s))

\* `function f() { try {} catch {} finally {} }` has been analyzed: depth 1,
\* complexity 2
C22_Witness ==
    /\ pc = "analyzed"
    /\ \E r \in Records : \E s \in Descendants(sourceFile, r.node) :
          /\ sourceFile.kind[s] = "TryStatement"
          /\ Cardinality(CatchClausesOf(sourceFile, s)) = 1
          /\ Cardinality({b \in 1..sourceFile.n :
                            /\ sourceFile.kind[b] = "Block"
                            /\ sourceFile.parent[b] = s}) = 2
          /\ r.maxNestingDepth = 1
          /\ r.cyclomaticComplexity = 2

\* the function the node x is of: the nearest function-like node above it
FunctionOf(t, x) ==
    LET above == {a \in Ancestors(t, x) : t.kind[a] \in FunctionLikeKinds}
    IN  IF above = {} THEN 0 ELSE CHOOSE a \in above : \A b \in above : b <= a

\* the entries of the parameter list of the function node f
ParameterList(t, f) ==
    {x \in Descendants(t, f) : t.kind[x] = "Parameter" /\ FunctionOf(t, x) = f}

\* C23: parameterCount of a record is the number of entries of the parameter
\* list of its function node. One more entry, plain or rest, makes it one
\* more; an element more in the pattern of a destructuring parameter, a
\* default value given to a parameter and a parameter of a function within
\* leave it as it is: each entry counts as exactly one.
C23_ParameterCount ==
    pc = "analyzed" =>
        \A r \in Records :
            LET f == r.node
                t == sourceFile
            IN  /\ r.parameterCount = Cardinality(ParameterList(t, f))
                /\ \A q \in LeafPlaces(t, f) : \A rest \in {"none", "..."} :
                      countParameters(InsertLeaf(t, f, q, Label("Parameter", rest, "a")), f)
                        = r.parameterCount + 1
                /\ \A x \in Descendants(t, f) : \A q \in LeafPlaces(t, x) :
                      /\ t.kind[x] = "ObjectBindingPattern" =>
                            countParameters(
                               InsertLeaf(t, x, q, Label("BindingElement", "none", "b")), f)
                              = r.parameterCount
                      /\ t.kind[x] = "Parameter" =>
                            countParameters(
                               InsertLeaf(t, x, q, Label("ArrowFunction", "none", NoName)), f)
                              = r.parameterCount
                      /\ (t.kind[x] \in FunctionLikeKinds) =>
                            countParameters(
                               InsertLeaf(t, x, q, Label("Parameter", "none", "a")), f)
                              = r.parameterCount

\* `function f({ b }, ...a) {}` has been analyzed: two parameters
C23_Witness ==
    /\ pc = "analyzed"
    /\ \E r \in Records :
          /\ r.parameterCount = 2
          /\ \E x, y \in ParameterList(sourceFile, r.node) :
                /\ sourceFile.op[y] = "..."
                /\ \E b \in Descendants(sourceFile, x) :
                      sourceFile.kind[b] = "BindingElement"

\* `function f(a = (a) => {}) {}` has been analyzed: one parameter of f
C23_WitnessDefault ==
    /\ pc = "analyzed"
    /\ \E r, g \in Records :
          /\ r.parameterCount = 1
          /\ g.parameterCount = 1
          /\ sourceFile.kind[sourceFile.parent[g.node]] = "Parameter"
          /\ sourceFile.parent[sourceFile.parent[g.node]] = r.node

\* the chain of if statements that ends in the if statement x: x, and the
\* if statements above x that nothing but if statements lie between
ChainTo(t, x) ==
    {a \in Ancestors(t, x) \cup {x} :
        \A b \in Ancestors(t, x) \cup {x} : b >= a => t.kind[b] = "IfStatement"}

\* the tree with the nodes of `nodes` made blocks
AsBlocks(t, nodes) ==
    [t EXCEPT !.kind = [i \in 1..t.n |-> IF i \in nodes THEN "Block" ELSE t.kind[i]]]

\* C25: an else-if is an if statement that is the child of the if before it,
\* so a chain of k if statements, each the child of the one before, whose
\* first is under d nesting constructs of the function, reaches depth d + k
\* and adds k to the cyclomaticComplexity; a function that nests nothing but
\* the chain has maxNestingDepth k.
C25_ElseIfChainDeepens ==
    pc = "analyzed" =>
        \A r \in Records : \A x \in Descendants(sourceFile, r.node) :
            sourceFile.kind[x] = "IfStatement" =>
                LET chain == ChainTo(sourceFile, x) \cap Descendants(sourceFile, r.node)
                    k == Cardinality(chain)
                    top == CHOOSE a \in chain : \A b \in chain : a <= b
                    d == NestCount(sourceFile, r.node, sourceFile.parent[top])
                IN  /\ r.maxNestingDepth >= d + k
                    /\ calculateMaxNesting_visit(sourceFile, top, d, d) >= d + k
                    /\ r.cyclomaticComplexity
                          = calculateComplexity(AsBlocks(sourceFile, chain), r.node) + k
                    /\ {n \in Descendants(sourceFile, r.node) :
                           sourceFile.kind[n] \in NestingConstructs} = chain
                          => r.maxNestingDepth = k

\* `() => { if (a) {} else if (b) {} else if (c) {} }` has been analyzed:
\* depth 3, complexity 4
C25_Witness ==
    /\ pc = "analyzed"
    /\ \E r \in Records : \E x \in Descendants(sourceFile, r.node) :
          /\ sourceFile.kind[x] = "IfStatement"
          /\ Cardinality(ChainTo(sourceFile, x)) = 3
          /\ Descendants(sourceFile, r.node) = ChainTo(sourceFile, x)
          /\ r.maxNestingDepth = 3
          /\ r.cyclomaticComplexity = 4

\* C26: for every two records of a file, of a function f and of a function
\* g that f is nested in, the cyclomaticComplexity of g is at least that of
\* f and the maxNestingDepth of g is at least that of f.
C26_EnclosingFunctionIsNoSimpler ==
    \A rg, rf \in Records :
        rf.node \in Descendants(sourceFile, rg.node) =>
            /\ rg.cyclomaticComplexity >= rf.cyclomaticComplexity
            /\ rg.maxNestingDepth >= rf.maxNestingDepth

\* g holds an if that holds f, which holds an if: g is above f by 1 in both
C26_Witness ==
    /\ pc = "analyzed"
    /\ \E rg, rf \in Records :
          /\ rf.node \in Descendants(sourceFile, rg.node)
          /\ rf.cyclomaticComplexity = 2
          /\ rg.cyclomaticComplexity = rf.cyclomaticComplexity + 1
          /\ rg.maxNestingDepth = rf.maxNestingDepth + 1

\* the default clauses of the switch statement s
DefaultClausesOf(t, s) ==
    {c \in 1..t.n : /\ t.kind[c] = "DefaultClause"
                    /\ t.kind[t.parent[c]] = "CaseBlock"
                    /\ t.parent[t.parent[c]] = s}

\* the tree with the default clauses of s made case clauses
DefaultAsCase(t, s) ==
    [t EXCEPT !.kind = [i \in 1..t.n |->
        IF i \in DefaultClausesOf(t, s) THEN "CaseClause" ELSE t.kind[i]]]

\* C27: a default clause adds nothing to the cyclomaticComplexity. A switch
\* with k case clauses and a default clause accounts for exactly k; were the
\* default a case it would be one more; a default clause put into a switch
\* leaves the complexity as it is; and a function that holds nothing but
\* the switch has complexity 1 + k.
C27_DefaultClauseAddsNothing ==
    pc = "analyzed" =>
        \A r \in Records : \A s \in Descendants(sourceFile, r.node) :
            sourceFile.kind[s] = "SwitchStatement" =>
                LET k == Cardinality(CaseClausesOf(sourceFile, s))
                    defaults == DefaultClausesOf(sourceFile, s)
                IN  /\ defaults # {} =>
                          /\ r.cyclomaticComplexity
                                = calculateComplexity(WithoutSwitch(sourceFile, s), r.node) + k
                          /\ calculateComplexity(DefaultAsCase(sourceFile, s), r.node)
                                = r.cyclomaticComplexity + Cardinality(defaults)
                          /\ Descendants(sourceFile, r.node)
                                = {s} \cup {b \in 1..sourceFile.n : sourceFile.parent[b] = s}
                                      \cup CaseClausesOf(sourceFile, s) \cup defaults
                                => r.cyclomaticComplexity = 1 + k
                    /\ \A b \in Descendants(sourceFile, s) :
                          (sourceFile.kind[b] = "CaseBlock" /\ sourceFile.parent[b] = s) =>
                             \A q \in LeafPlaces(sourceFile, b) :
                                calculateComplexity(
                                   InsertLeaf(sourceFile, b, q,
                                              Label("DefaultClause", "none", NoName)),
                                   r.node) = r.cyclomaticComplexity

\* `function f() { switch (a) { case 1: case 2: default: } }` has been
\* analyzed: complexity 3
C27_Witness ==
    /\ pc = "analyzed"
    /\ \E r \in Records : \E s \in Descendants(sourceFile, r.node) :
          /\ sourceFile.kind[s] = "SwitchStatement"
          /\ Cardinality(CaseClausesOf(sourceFile, s)) = 2
          /\ Cardinality(DefaultClausesOf(sourceFile, s)) = 1
          /\ r.cyclomaticComplexity = 3

-----------------------------------------------------------------------------
(* Claims about analyzeFile called again (specification SpecAgain)         *)

-----------------------------------------------------------------------------
(* Claims about main over a file system (specification SpecRun)            *)

SourceExtensions ==
    {<<"t", "s">>, <<"t", "s", "x">>, <<"j", "s">>, <<"j", "s", "x">>}

\* the name ends in .ts, .tsx, .js or .jsx
EndsInSourceExtension(nm) ==
    \E i \in 1..Len(nm) : nm[i] = "." /\ SubSeq(nm, i + 1, Len(nm)) \in SourceExtensions

\* the name starts with '.' or is node_modules or dist
SkippedName(nm) ==
    \/ nm # <<>> /\ nm[1] = "."
    \/ nm = <<"n", "o", "d", "e", "_", "m", "o", "d", "u", "l", "e", "s">>
    \/ nm = <<"d", "i", "s", "t">>

\* the directories between the target and entry e
Between(d, e) == Ancestors(d, e) \ {1}

\* the files a walk of the target is to analyze
Candidates(d) ==
    {e \in 2..d.n : /\ d.kind[e] = "file"
                    /\ EndsInSourceExtension(d.name[e])
                    /\ \A a \in Between(d, e) : ~SkippedName(d.name[a])}

\* reading or parsing the file of entry e fails
Fails(d, e) == ~d.content[e].readable \/ d.content[e].tree.tooDeep

\* the records of the list fs that are of the file of entry e
RecordsOf(fs, d, e) == SelectSeq(fs, LAMBDA r : r.filePath = pathOf(d, e))

\* the run is one of a directory and the analysis of the directory is over
WalkOver == disk.kind[1] = "dir" /\ pc \in {"analyzed", "done"}

\* C15: in a run over a directory, a file whose reading or parsing fails puts
\* no record into the aggregate, whatever the analyzer had recorded of it when
\* it failed, and the failure is reported; every other candidate file is
\* analyzed and puts its records into the aggregate.
C15_FailingFileContributesNothing ==
    /\ \A e \in Candidates(disk) :
          Fails(disk, e) =>
             /\ RecordsOf(allFunctions, disk, e) = <<>>
             /\ RecordsOf(functions, disk, e) = <<>>
    /\ WalkOver =>
          \A e \in Candidates(disk) :
             IF Fails(disk, e)
             THEN /\ \E i \in 1..Len(console) :
                        console[i] = Say("error", "analysis error", pathOf(disk, e))
                  /\ \E i \in 1..Len(returned) :
                        returned[i] = [path |-> pathOf(disk, e), list |-> <<>>]
             ELSE /\ Len(RecordsOf(functions, disk, e))
                       = Cardinality({n \in 1..disk.content[e].tree.n :
                            disk.content[e].tree.kind[n] \in FunctionLikeKinds})
                  /\ \A i \in 1..Len(console) :
                        console[i] # Say("error", "analysis error", pathOf(disk, e))

\* a file too deep for the traversal, of which a function had been recorded,
\* then a file that is analyzed: one record in all
C15_Witness ==
    /\ WalkOver
    /\ Len(functions) = 1
    /\ \E e, g \in Candidates(disk) :
          /\ e < g
          /\ disk.content[e].readable
          /\ disk.content[e].tree.tooDeep
          /\ ~Fails(disk, g)
          /\ functions[1].filePath = pathOf(disk, g)

\* the target does not exist, or is a file of another extension
InvalidTarget ==
    \/ disk.kind[1] = "missing"
    \/ disk.kind[1] = "file" /\ ~EndsInSourceExtension(disk.name[1])

\* C16: if the target path does not exist, or is a file whose extension is
\* not .ts, .tsx, .js or .jsx, main exits with failure where it checks the
\* path: no file is analyzed and no summary is produced.
C16_InvalidTargetAborts ==
    /\ [](InvalidTarget =>
             /\ pc \in {"start", "parsed", "exit1"}
             /\ returned = <<>>
             /\ stack = <<>>
             /\ this_functions = <<>>
             /\ report = NoReport
             /\ \A i \in 1..Len(console) : console[i].message # "analyzing")
    /\ [][(InvalidTarget /\ pc = "parsed") => pc' = "exit1"]_vars

\* main has exited on a file named e.md
C16_Witness ==
    /\ pc = "exit1"
    /\ disk.kind[1] = "file"
    /\ disk.name[1] = <<"e", ".", "m", "d">>
    /\ console = <<Say("error", "unsupported file", <<>>)>>

\* C18: in a walk, a file is analyzed if and only if its name ends in .ts,
\* .tsx, .js or .jsx and no directory between the target and the file has a
\* name that starts with '.' or is node_modules or dist; walk never enters
\* such a directory.
C18_WalkAnalyzesTheCandidates ==
    /\ \A k \in 2..Len(walkStack) : ~SkippedName(disk.name[walkStack[k].dir])
    /\ \A i \in 1..Len(returned) :
          disk.kind[1] = "dir" =>
             \E e \in Candidates(disk) : returned[i].path = pathOf(disk, e)
    /\ \A i \in 1..Len(console) :
          console[i].message = "analyzing" =>
             \E e \in Candidates(disk) : console[i].path = pathOf(disk, e)
    /\ WalkOver =>
          /\ {returned[i].path : i \in 1..Len(returned)}
                = {pathOf(disk, e) : e \in Candidates(disk)}
          /\ Len(returned) = Cardinality(Candidates(disk))

\* a walk that has analyzed a.ts and has left alone the a.ts in a directory
\* it skips
C18_Witness ==
    /\ WalkOver
    /\ Len(returned) = 1
    /\ \E e \in 2..disk.n :
          /\ disk.kind[e] = "file"
          /\ EndsInSourceExtension(disk.name[e])
          /\ Between(disk, e) # {}
          /\ e \notin Candidates(disk)

RECURSIVE ListsInOrder(_)
\* the lists of the calls one behind the other, in the order of the calls
ListsInOrder(calls) ==
    IF calls = <<>> THEN <<>> ELSE Head(calls).list \o ListsInOrder(Tail(calls))

\* the candidates of the walk in the order the walk comes to them
CandidatesInOrder(d) ==
    SelectSeq([e \in 1..d.n |-> e], LAMBDA e : e \in Candidates(d))

\* C21: no record crosses a file boundary. In a run over a directory a file
\* is parsed, and the walk moves on, only when no traversal is under way;
\* the list returned for a file holds only records whose filePath is that
\* file; the calls are those for the candidates in the order of the walk; and
\* the aggregate is the lists returned, one behind the other in that order,
\* no record twice and none lost.
C21_NoRecordCrossesFiles ==
    /\ [](disk.kind[1] = "dir" =>
            /\ \A i \in 1..Len(returned) : \A k \in 1..Len(returned[i].list) :
                  returned[i].list[k].filePath = returned[i].path
            /\ \A i \in 1..Len(returned) :
                  returned[i].path = pathOf(disk, CandidatesInOrder(disk)[i])
            /\ pc \in {"walk", "visit"} => allFunctions = ListsInOrder(returned)
            /\ pc = "visit" =>
                  \A k \in 1..Len(this_functions) :
                     this_functions[k].filePath = sourceFile.fileName
            /\ pc = "analyzed" => functions = ListsInOrder(returned))
    /\ [][(sourceFile' # sourceFile \/ walkStack' # walkStack) => stack = <<>>]_vars

\* a walk over two files of one function each, the first in a directory of
\* the target: two records, of the two files, in the order of the walk
C21_Witness ==
    /\ disk.kind[1] = "dir"
    /\ pc = "analyzed"
    /\ Len(returned) = 2
    /\ Len(functions) = 2
    /\ functions[1].filePath = returned[1].path
    /\ functions[2].filePath = returned[2].path
    /\ returned[1].path # returned[2].path

-----------------------------------------------------------------------------
(* Claims about the command line (specification SpecSummary)               *)

\* the text is a number: digits, after a sign or none
IsNumber(str) ==
    LET digits == IF str # <<>> /\ str[1] \in {"-", "+"} THEN Tail(str) ELSE str
    IN  /\ digits # <<>>
        /\ \A i \in 1..Len(digits) : \E d \in 1..10 : Digits[d] = digits[i]

\* the command line gives --threshold a value, and the value is no number
NonNumericThreshold ==
    \E i \in 1..(Len(args) - 1) :
        /\ args[i] = ThresholdFlag
        /\ \A j \in 1..(i - 1) : args[j] # ThresholdFlag
        /\ ~IsNumber(args[i + 1])

\* C17: whenever the value that follows --threshold is not a number, the run
\* exits with failure before any analysis: nothing is read, parsed or
\* summarized.
C17_NonNumericThresholdAborts ==
    (NonNumericThreshold /\ pc # "start") =>
        /\ pc = "exit1"
        /\ functions = <<>>
        /\ report = NoReport

\* the place of the first --threshold of the command line, 0 when absent
FlagAt ==
    IF \E i \in 1..Len(args) : args[i] = ThresholdFlag
    THEN CHOOSE i \in 1..Len(args) :
            args[i] = ThresholdFlag /\ \A j \in 1..(i - 1) : args[j] # ThresholdFlag
    ELSE 0

\* C30: once the command line is parsed, the threshold is 10 and the run
\* goes on when --threshold is absent or is the last argument; when a value
\* follows it, the threshold is parseInt of that value, and the run has
\* exited only if that is NaN.
C30_ThresholdSelection ==
    (pc # "start" /\ args # <<>>) =>
        IF FlagAt = 0 \/ FlagAt = Len(args)
        THEN threshold = Num(10) /\ pc # "exit1"
        ELSE /\ threshold = parseInt(args[FlagAt + 1])
             /\ pc = "exit1" => threshold.nan

====
